---- MODULE Spec2Model ----
(***************************************************************************)
(* Energy ingestion engine: the dual-path write model of IngestionService  *)
(* (append-only Reading ledgers + one CurrentState row per device, written *)
(* inside one prisma.$transaction per call) and the batch reduction.       *)
(*                                                                         *)
(* The store is PostgreSQL behind Prisma.  A transaction client sees the   *)
(* committed rows overlaid by its own writes; its writes become visible to *)
(* others at commit, all at once, or never (rollback).  A write to a       *)
(* unique key that another open transaction has written waits for that    *)
(* transaction to end.  Any statement may fail (storage fault, unique      *)
(* violation, deadlock, timeout); the callback then throws and the         *)
(* transaction rolls back.                                                 *)
(*                                                                         *)
(* An upsert whose update is not empty is one INSERT ... ON CONFLICT DO     *)
(* UPDATE statement.  The device upserts have `update: {}`: Prisma cannot   *)
(* send those as one statement and runs them as a SELECT followed, when no  *)
(* row was found, by an INSERT, which fails on the unique key (P2002) if    *)
(* the row has been committed in between.                                  *)
(*                                                                         *)
(* Left out of the rows: the generated columns id (uuid) and receivedAt    *)
(* (now()), which no handler reads back.                                   *)
(***************************************************************************)
EXTENDS Integers, Sequences, FiniteSets, TLC

VARIABLES
    db,     \* the committed tables
    pc,     \* pc[p]: where call p stands in its handler
    call,   \* call[p]: the handler's arguments and locals
    tx,     \* tx[p]: the writes of p's open transaction
    hist,   \* hist[p]: the committed tables when p's call started; is the call a retry
    ordered, \* no committed call brought a device only readings older than one it had
    req     \* the association or analytics request: its arguments, locals and response

vars == <<db, pc, call, tx, hist, ordered, req>>

(***************************** bounds ***************************************)
NumCalls == 2          \* concurrent callers
MaxBatch == 2          \* longest batch of the sequential specification
MaxConcBatch == 2      \* longest batch of the concurrent specification
MaxLedger == 2         \* a call starts only while the ledgers have room for its readings
MaxConcLedger == 2     \* the same, for the concurrent specification
MaxReadBatch == 2      \* longest batch while requests are served
MaxReadLedger == 2     \* room of the ledgers while requests are served
MaxHttpBatch == 2      \* longest batch body
MaxHttpLedger == 2     \* room of the ledgers for the posting client
MaxSeries == 4         \* longest series of one counter in the summary window

Procs == 1..NumCalls

MeterIdSet == {"METER-001", "METER-002"}
VehicleIdSet == {"VEH-001", "VEH-002"}

\* An ISO-8601 string: a wall-clock hour and a UTC offset in hours.
\* "03:00+02:00" is the instant of "01:00Z", and earlier than "02:00Z".  Instants
\* are counted in minutes.
\* form: a calendar date and time ("2024-01-15T01:00:00Z"), an ISO week date
\* ("2024-W03-1") or any other text ("yesterday").
IsoStrings ==
    {[form |-> "calendar", wall |-> 1, offset |-> 0],
     [form |-> "calendar", wall |-> 2, offset |-> 0],
     [form |-> "calendar", wall |-> 3, offset |-> 2]}

\* the timestamp strings a request body may carry
BodyStrings ==
    {[form |-> f, wall |-> 1, offset |-> 0] : f \in {"calendar", "week", "text"}}

MeterPayloads == {[kwhConsumedAc |-> 1000, voltage |-> 230],
                  [kwhConsumedAc |-> 1005, voltage |-> 231]}
VehiclePayloads == {[soc |-> 50, kwhDeliveredDc |-> 800, batteryTemp |-> 30],
                    [soc |-> 60, kwhDeliveredDc |-> 804, batteryTemp |-> 31]}

MeterTelemetryDto ==
    {[meterId |-> m, kwhConsumedAc |-> v.kwhConsumedAc, voltage |-> v.voltage,
      timestamp |-> s] : m \in MeterIdSet, v \in MeterPayloads, s \in IsoStrings}

VehicleTelemetryDto ==
    {[vehicleId |-> m, soc |-> v.soc, kwhDeliveredDc |-> v.kwhDeliveredDc,
      batteryTemp |-> v.batteryTemp, timestamp |-> s] :
        m \in VehicleIdSet, v \in VehiclePayloads, s \in IsoStrings}

SeqUpTo(S, n) == UNION {[1..k -> S] : k \in 0..n}

(***************************** helpers **************************************)
NaN == "NaN"

\* new Date(isoString): the instant the string denotes, in minutes; the Invalid Date
\* for a string the JavaScript engine does not parse (a week date is one)
Date(s) == IF s.form = "calendar" THEN 60 * (s.wall - s.offset) ELSE NaN

\* the Date made of the string is not the Invalid Date
IsValidDate(s) == s.form = "calendar"

\* @IsDateString(): the string has an ISO 8601 format, week dates included
IsDateString(s) == s.form \in {"calendar", "week"}

NULL == "null"

KeyedTables == {"meter", "vehicle", "meterCurrentState", "vehicleCurrentState"}
LedgerTables == {"meterReading", "vehicleReading"}

KeyOf(t) == IF t \in {"meter", "meterCurrentState"} THEN "meterId" ELSE "vehicleId"

EmptyTables ==
    [meter |-> {}, vehicle |-> {}, meterCurrentState |-> {}, vehicleCurrentState |-> {},
     meterReading |-> <<>>, vehicleReading |-> <<>>]

\* (mutant) the key column is not declared unique
OverlayNoUniqueKey(base, written, k) == base \cup written

\* rows of a uniquely keyed table after the rows `written` are applied to `base`
Overlay(base, written, k) ==
    {r \in base : \A x \in written : x[k] # r[k]} \cup written

\* (mutant) the readings a call writes replace the ledger instead of extending it
TxViewReplacesReadings(p) ==
    [meter |-> Overlay(db.meter, tx[p].meter, "meterId"),
     vehicle |-> Overlay(db.vehicle, tx[p].vehicle, "vehicleId"),
     meterCurrentState |->
        Overlay(db.meterCurrentState, tx[p].meterCurrentState, "meterId"),
     vehicleCurrentState |->
        Overlay(db.vehicleCurrentState, tx[p].vehicleCurrentState, "vehicleId"),
     meterReading |->
        IF tx[p].meterReading = <<>> THEN db.meterReading ELSE tx[p].meterReading,
     vehicleReading |->
        IF tx[p].vehicleReading = <<>> THEN db.vehicleReading ELSE tx[p].vehicleReading]

\* what the transaction client of call p reads
TxView(p) ==
    [meter |-> Overlay(db.meter, tx[p].meter, "meterId"),
     vehicle |-> Overlay(db.vehicle, tx[p].vehicle, "vehicleId"),
     meterCurrentState |->
        Overlay(db.meterCurrentState, tx[p].meterCurrentState, "meterId"),
     vehicleCurrentState |->
        Overlay(db.vehicleCurrentState, tx[p].vehicleCurrentState, "vehicleId"),
     meterReading |-> db.meterReading \o tx[p].meterReading,
     vehicleReading |-> db.vehicleReading \o tx[p].vehicleReading]

InTx(q) == pc[q] \in {"registry", "create", "cold", "hot", "commit"}

\* (mutant) a writer holds the whole table
LockedTable(p, t, id) ==
    \E q \in Procs \ {p} : InTx(q) /\ tx[q][t] # {}

\* another open transaction has written the row of table t with key id
Locked(p, t, id) ==
    \E q \in Procs \ {p} : InTx(q) /\ \E r \in tx[q][t] : r[KeyOf(t)] = id

MergeRow(row, data) ==
    [f \in DOMAIN row |-> IF f \in DOMAIN data THEN data[f] ELSE row[f]]

\* (mutant) an upsert that keeps the stored row when the incoming timestamp is older
UpsertIfNewer(p, t, id, update, create) ==
    LET k == KeyOf(t)
        hit == {r \in TxView(p)[t] : r[k] = id}
    IN  IF hit = {} THEN tx[p][t] \cup {create}
        ELSE IF DOMAIN update = {} THEN tx[p][t]
        ELSE {x \in tx[p][t] : x[k] # id} \cup
             {IF update.lastTimestamp < r.lastTimestamp THEN r ELSE MergeRow(r, update) :
                r \in hit}

\* tx.<t>.upsert({where: {key: id}, update, create}): the writes of p on t afterwards
Upsert(p, t, id, update, create) ==
    LET k == KeyOf(t)
        hit == {r \in TxView(p)[t] : r[k] = id}
    IN  IF hit = {} THEN tx[p][t] \cup {create}
        ELSE IF DOMAIN update = {} THEN tx[p][t]
        ELSE {x \in tx[p][t] : x[k] # id} \cup {MergeRow(r, update) : r \in hit}

NoData == <<>>

\* a JavaScript Map from device id to reading, in insertion order: one entry per key
MapGet(m, k, key) == {m[i] : i \in {j \in DOMAIN m : m[j][k] = key}}

MapSet(m, k, key, v) ==
    IF \E i \in DOMAIN m : m[i][k] = key
    THEN [i \in DOMAIN m |-> IF m[i][k] = key THEN v ELSE m[i]]
    ELSE Append(m, v)

\* [...new Set(xs)]: the distinct elements in order of first occurrence
SetSpread(xs) ==
    LET RECURSIVE add(_, _)
        add(acc, i) ==
            IF i > Len(xs) THEN acc
            ELSE IF \E j \in DOMAIN acc : acc[j] = xs[i] THEN add(acc, i + 1)
            ELSE add(Append(acc, xs[i]), i + 1)
    IN  add(<<>>, 1)

(************************* IngestionService: data ***************************)
meterCreate(meterId) == [meterId |-> meterId, name |-> "Meter " \o meterId]

vehicleCreate(vehicleId) ==
    [vehicleId |-> vehicleId, name |-> "Vehicle " \o vehicleId, meterId |-> NULL]

meterReadingData(dto) ==
    [meterId |-> dto.meterId, kwhConsumedAc |-> dto.kwhConsumedAc,
     voltage |-> dto.voltage, timestamp |-> Date(dto.timestamp)]

vehicleReadingData(dto) ==
    [vehicleId |-> dto.vehicleId, soc |-> dto.soc,
     kwhDeliveredDc |-> dto.kwhDeliveredDc, batteryTemp |-> dto.batteryTemp,
     timestamp |-> Date(dto.timestamp)]

\* (mutant) the update branch forgets lastTimestamp
meterCurrentStateUpdateNoStamp(dto) ==
    [kwhConsumedAc |-> dto.kwhConsumedAc, voltage |-> dto.voltage]

meterCurrentStateUpdate(dto) ==
    [kwhConsumedAc |-> dto.kwhConsumedAc, voltage |-> dto.voltage,
     lastTimestamp |-> Date(dto.timestamp)]

meterCurrentStateCreate(dto) ==
    [meterId |-> dto.meterId, kwhConsumedAc |-> dto.kwhConsumedAc,
     voltage |-> dto.voltage, lastTimestamp |-> Date(dto.timestamp)]

\* (mutant) the update branch leaves the stored state of charge
vehicleCurrentStateUpdateNoSoc(dto) ==
    [kwhDeliveredDc |-> dto.kwhDeliveredDc, batteryTemp |-> dto.batteryTemp,
     lastTimestamp |-> Date(dto.timestamp)]

vehicleCurrentStateUpdate(dto) ==
    [soc |-> dto.soc, kwhDeliveredDc |-> dto.kwhDeliveredDc,
     batteryTemp |-> dto.batteryTemp, lastTimestamp |-> Date(dto.timestamp)]

vehicleCurrentStateCreate(dto) ==
    [vehicleId |-> dto.vehicleId, soc |-> dto.soc,
     kwhDeliveredDc |-> dto.kwhDeliveredDc, batteryTemp |-> dto.batteryTemp,
     lastTimestamp |-> Date(dto.timestamp)]

\* (mutant) only the readings that win the reduction reach the ledger
meterReadingCreateManyLatest(readings) ==
    LET RECURSIVE keep(_, _)
        keep(acc, i) ==
            IF i > Len(readings) THEN acc
            ELSE IF \E j \in 1..Len(readings) :
                       /\ j # i
                       /\ readings[j].meterId = readings[i].meterId
                       /\ \/ Date(readings[j].timestamp) > Date(readings[i].timestamp)
                          \/ Date(readings[j].timestamp) = Date(readings[i].timestamp) /\ j < i
                 THEN keep(acc, i + 1)
                 ELSE keep(Append(acc, meterReadingData(readings[i])), i + 1)
    IN  keep(<<>>, 1)

\* tx.meterReading.createMany({data: readings.map(...)})
meterReadingCreateMany(readings) ==
    [j \in DOMAIN readings |-> meterReadingData(readings[j])]

vehicleReadingCreateMany(readings) ==
    [j \in DOMAIN readings |-> vehicleReadingData(readings[j])]

\* const meterIds = [...new Set(readings.map((r) => r.meterId))]
meterIds(readings) == SetSpread([i \in DOMAIN readings |-> readings[i].meterId])

vehicleIds(readings) == SetSpread([i \in DOMAIN readings |-> readings[i].vehicleId])

\* (mutant) the comparison is inverted: the oldest reading of a meter is kept
latestByMeterOldest(readings) ==
    LET RECURSIVE loop(_, _)
        loop(m, i) ==
            IF i > Len(readings) THEN m
            ELSE LET reading == readings[i]
                     existing == MapGet(m, "meterId", reading.meterId)
                 IN  IF \/ existing = {}
                        \/ \E e \in existing :
                              Date(reading.timestamp) < Date(e.timestamp)
                     THEN loop(MapSet(m, "meterId", reading.meterId, reading), i + 1)
                     ELSE loop(m, i + 1)
    IN  loop(<<>>, 1)

\* the batch reduction: for each meter the reading that updates its CurrentState
latestByMeter(readings) ==
    LET RECURSIVE loop(_, _)
        loop(m, i) ==
            IF i > Len(readings) THEN m
            ELSE LET reading == readings[i]
                     existing == MapGet(m, "meterId", reading.meterId)
                 IN  IF \/ existing = {}
                        \/ \E e \in existing :
                              Date(reading.timestamp) > Date(e.timestamp)
                     THEN loop(MapSet(m, "meterId", reading.meterId, reading), i + 1)
                     ELSE loop(m, i + 1)
    IN  loop(<<>>, 1)

\* (mutant) no reduction: every reading of the batch updates CurrentState
latestByVehicleEveryReading(readings) == readings

\* (mutant) the ISO strings are compared instead of the instants
latestByVehicleStrings(readings) ==
    LET RECURSIVE loop(_, _)
        loop(m, i) ==
            IF i > Len(readings) THEN m
            ELSE LET reading == readings[i]
                     existing == MapGet(m, "vehicleId", reading.vehicleId)
                 IN  IF \/ existing = {}
                        \/ \E e \in existing :
                              reading.timestamp.wall > e.timestamp.wall
                     THEN loop(MapSet(m, "vehicleId", reading.vehicleId, reading), i + 1)
                     ELSE loop(m, i + 1)
    IN  loop(<<>>, 1)

latestByVehicle(readings) ==
    LET RECURSIVE loop(_, _)
        loop(m, i) ==
            IF i > Len(readings) THEN m
            ELSE LET reading == readings[i]
                     existing == MapGet(m, "vehicleId", reading.vehicleId)
                 IN  IF \/ existing = {}
                        \/ \E e \in existing :
                              Date(reading.timestamp) > Date(e.timestamp)
                     THEN loop(MapSet(m, "vehicleId", reading.vehicleId, reading), i + 1)
                     ELSE loop(m, i + 1)
    IN  loop(<<>>, 1)

(************************* AnalyticsService *********************************)
NotFoundException == [error |-> "NotFoundException"]

\* (mutant) two fields of the response are taken from each other's column
getCurrentStateSwapped(vehicleId) ==
    LET currentState == {r \in db.vehicleCurrentState : r.vehicleId = vehicleId}
    IN  IF currentState = {} THEN NotFoundException
        ELSE LET row == CHOOSE r \in currentState : TRUE
             IN  [vehicleId |-> row.vehicleId,
                  currentSoc |-> row.batteryTemp,
                  currentBatteryTemp |-> row.soc,
                  lastKwhDeliveredDc |-> row.kwhDeliveredDc,
                  lastUpdated |-> row.lastTimestamp]

\* (mutant) the state is taken from the newest Reading row of the vehicle
getCurrentStateFromLedger(vehicleId) ==
    LET idx == {j \in DOMAIN db.vehicleReading : db.vehicleReading[j].vehicleId = vehicleId}
    IN  IF idx = {} THEN NotFoundException
        ELSE LET row == db.vehicleReading[
                            CHOOSE j \in idx :
                               \A i \in idx : db.vehicleReading[i].timestamp
                                                  <= db.vehicleReading[j].timestamp]
             IN  [vehicleId |-> row.vehicleId,
                  currentSoc |-> row.soc,
                  currentBatteryTemp |-> row.batteryTemp,
                  lastKwhDeliveredDc |-> row.kwhDeliveredDc,
                  lastUpdated |-> row.timestamp]

\* prisma.vehicleCurrentState.findUnique on the committed tables, mapped to the response
getCurrentState(vehicleId) ==
    LET currentState == {r \in db.vehicleCurrentState : r.vehicleId = vehicleId}
    IN  IF currentState = {} THEN NotFoundException
        ELSE LET row == CHOOSE r \in currentState : TRUE
             IN  [vehicleId |-> row.vehicleId,
                  currentSoc |-> row.soc,
                  currentBatteryTemp |-> row.batteryTemp,
                  lastKwhDeliveredDc |-> row.kwhDeliveredDc,
                  lastUpdated |-> row.lastTimestamp]

\* the four results of the Promise.all of getFleetStats
FleetQueries == {"totalVehicles", "totalMeters", "vehicleStates", "meterStates"}

NoResults == [totalVehicles |-> 0, totalMeters |-> 0, vehicleStates |-> {}, meterStates |-> {}]

\* no request
IdleReq ==
    [op |-> "none", pc |-> "idle", vehicleId |-> NULL, meterId |-> NULL, now |-> 0,
     pending |-> {}, got |-> NoResults, vehicleReadings |-> <<>>, seen |-> {},
     result |-> NULL]

\* the sum of field f over a set of rows
RECURSIVE Sum(_, _)
Sum(rows, f) ==
    IF rows = {} THEN 0
    ELSE LET r == CHOOSE x \in rows : TRUE IN r[f] + Sum(rows \ {r}, f)

\* (mutant) the decimals after the second are cut off
Round2Truncated(n, d) == (100 * n) \div d

\* Math.round((n / d) * 100) / 100, in hundredths
Round2(n, d) == (200 * n + d) \div (2 * d)

EFFICIENCY_THRESHOLD_WARNING == 85
EFFICIENCY_THRESHOLD_CRITICAL == 75

\* (mutant) the query does not filter on the device
FindManyAscAnyDevice(ledger, k, id, periodStart, periodEnd) ==
    LET idx == {j \in DOMAIN ledger :
                   /\ ledger[j].timestamp >= periodStart
                   /\ ledger[j].timestamp <= periodEnd}
        n == Cardinality(idx)
    IN  {[i \in 1..n |-> ledger[g[i]]] :
            g \in {h \in [1..n -> idx] :
                      /\ \A a, b \in 1..n : a # b => h[a] # h[b]
                      /\ \A a, b \in 1..n :
                            a < b => ledger[h[a]].timestamp <= ledger[h[b]].timestamp}}

\* (mutant) the window is open: gt and lt instead of gte and lte
FindManyAscOpenWindow(ledger, k, id, periodStart, periodEnd) ==
    LET idx == {j \in DOMAIN ledger :
                   /\ ledger[j][k] = id
                   /\ ledger[j].timestamp > periodStart
                   /\ ledger[j].timestamp < periodEnd}
        n == Cardinality(idx)
    IN  {[i \in 1..n |-> ledger[g[i]]] :
            g \in {h \in [1..n -> idx] :
                      /\ \A a, b \in 1..n : a # b => h[a] # h[b]
                      /\ \A a, b \in 1..n :
                            a < b => ledger[h[a]].timestamp <= ledger[h[b]].timestamp}}

\* findMany({where: {<k>: id, timestamp: {gte, lte}}, orderBy: {timestamp: 'asc'}}):
\* the rows of the device in the window by ascending timestamp; rows with equal
\* timestamps come in an order the store chooses
FindManyAsc(ledger, k, id, periodStart, periodEnd) ==
    LET idx == {j \in DOMAIN ledger :
                   /\ ledger[j][k] = id
                   /\ ledger[j].timestamp >= periodStart
                   /\ ledger[j].timestamp <= periodEnd}
        n == Cardinality(idx)
    IN  {[i \in 1..n |-> ledger[g[i]]] :
            g \in {h \in [1..n -> idx] :
                      /\ \A a, b \in 1..n : a # b => h[a] # h[b]
                      /\ \A a, b \in 1..n :
                            a < b => ledger[h[a]].timestamp <= ledger[h[b]].timestamp}}

\* the energy a cumulative counter f gained over the series: last minus first, or the
\* sum of the positive steps when that is negative (the counter was reset)
RECURSIVE PositiveDeltasAll(_, _, _)
\* (mutant) every step is added, the negative ones too
PositiveDeltasAll(series, f, i) ==
    IF i > Len(series) THEN 0
    ELSE (series[i][f] - series[i - 1][f]) + PositiveDeltasAll(series, f, i + 1)

RECURSIVE PositiveDeltas(_, _, _)
PositiveDeltas(series, f, i) ==
    IF i > Len(series) THEN 0
    ELSE LET delta == series[i][f] - series[i - 1][f]
         IN  (IF delta > 0 THEN delta ELSE 0) + PositiveDeltas(series, f, i + 1)

\* (mutant) no handling of a counter reset: always last minus first
CounterTotalLastMinusFirst(series, f) ==
    IF Len(series) = 0 THEN 0
    ELSE series[Len(series)][f] - series[1][f]

CounterTotal(series, f) ==
    IF Len(series) = 0 THEN 0
    ELSE LET total == series[Len(series)][f] - series[1][f]
         IN  IF total < 0 THEN PositiveDeltas(series, f, 2) ELSE total

RECURSIVE SeqSum(_, _, _)
SeqSum(series, f, i) ==
    IF i > Len(series) THEN 0 ELSE series[i][f] + SeqSum(series, f, i + 1)

\* (mutant) the thresholds themselves fall in the lower class: <= instead of <
efficiencyStatusInclusive(totalDcDelivered, totalAcConsumed) ==
    IF totalAcConsumed > 0 /\ totalDcDelivered > 0
    THEN IF 100 * totalDcDelivered <= EFFICIENCY_THRESHOLD_CRITICAL * totalAcConsumed
         THEN "CRITICAL"
         ELSE IF 100 * totalDcDelivered <= EFFICIENCY_THRESHOLD_WARNING * totalAcConsumed
              THEN "WARNING"
              ELSE "HEALTHY"
    ELSE "HEALTHY"

\* the status of the ratio (totalDcDelivered / totalAcConsumed) * 100, not rounded
efficiencyStatus(totalDcDelivered, totalAcConsumed) ==
    IF totalAcConsumed > 0 /\ totalDcDelivered > 0
    THEN IF 100 * totalDcDelivered < EFFICIENCY_THRESHOLD_CRITICAL * totalAcConsumed
         THEN "CRITICAL"
         ELSE IF 100 * totalDcDelivered < EFFICIENCY_THRESHOLD_WARNING * totalAcConsumed
              THEN "WARNING"
              ELSE "HEALTHY"
    ELSE "HEALTHY"

\* (mutant) a vehicle without an associated meter is answered like an unknown vehicle
PerformanceSummaryRequiresMeter(vehicleId, meterId, now, vehicleReadings, meterReadings) ==
    IF meterId = NULL THEN NotFoundException
    ELSE [vehicleId |-> vehicleId,
          meterId |-> meterId,
          periodStart |-> now - 24 * 60,
          periodEnd |-> now,
          totalAcConsumed |-> 100 * CounterTotal(meterReadings, "kwhConsumedAc"),
          totalDcDelivered |-> 100 * CounterTotal(vehicleReadings, "kwhDeliveredDc"),
          efficiencyRatio |->
             IF CounterTotal(meterReadings, "kwhConsumedAc") > 0
             THEN Round2(100 * CounterTotal(vehicleReadings, "kwhDeliveredDc"),
                         CounterTotal(meterReadings, "kwhConsumedAc"))
             ELSE 0,
          avgBatteryTemp |->
             IF Len(vehicleReadings) > 0
             THEN Round2(SeqSum(vehicleReadings, "batteryTemp", 1), Len(vehicleReadings))
             ELSE 0,
          vehicleReadingCount |-> Len(vehicleReadings),
          meterReadingCount |-> Len(meterReadings),
          efficiencyStatus |->
             efficiencyStatus(CounterTotal(vehicleReadings, "kwhDeliveredDc"),
                              CounterTotal(meterReadings, "kwhConsumedAc"))]

\* the response of getPerformanceSummary from the rows its queries returned; the
\* rounded numbers are in hundredths
PerformanceSummary(vehicleId, meterId, now, vehicleReadings, meterReadings) ==
    LET totalDcDelivered == CounterTotal(vehicleReadings, "kwhDeliveredDc")
        totalAcConsumed == CounterTotal(meterReadings, "kwhConsumedAc")
        vehicleReadingCount == Len(vehicleReadings)
    IN  [vehicleId |-> vehicleId,
         meterId |-> meterId,
         periodStart |-> now - 24 * 60,
         periodEnd |-> now,
         totalAcConsumed |-> 100 * totalAcConsumed,
         totalDcDelivered |-> 100 * totalDcDelivered,
         efficiencyRatio |->
            IF totalAcConsumed > 0 THEN Round2(100 * totalDcDelivered, totalAcConsumed)
            ELSE 0,
         avgBatteryTemp |->
            IF vehicleReadingCount > 0
            THEN Round2(SeqSum(vehicleReadings, "batteryTemp", 1), vehicleReadingCount)
            ELSE 0,
         vehicleReadingCount |-> vehicleReadingCount,
         meterReadingCount |-> Len(meterReadings),
         efficiencyStatus |-> efficiencyStatus(totalDcDelivered, totalAcConsumed)]

\* one query of getFleetStats on the committed tables
FleetQuery(q, tables) ==
    CASE q = "totalVehicles" -> Cardinality(tables.vehicle)
      [] q = "totalMeters" -> Cardinality(tables.meter)
      [] q = "vehicleStates" -> tables.vehicleCurrentState
      [] q = "meterStates" -> tables.meterCurrentState

\* (mutant) a device seen exactly five minutes ago is not active: > instead of >=
FleetStatsStrict(got, now) ==
    LET fiveMinutesAgo == now - 5
        activeVehicleStates == {v \in got.vehicleStates : v.lastTimestamp > fiveMinutesAgo}
        activeMeterStates == {m \in got.meterStates : m.lastTimestamp > fiveMinutesAgo}
        n == Cardinality(activeVehicleStates)
    IN  [totalVehicles |-> got.totalVehicles,
         totalMeters |-> got.totalMeters,
         activeVehicles |-> n,
         activeMeters |-> Cardinality(activeMeterStates),
         avgFleetSoc |-> IF n > 0 THEN Round2(Sum(activeVehicleStates, "soc"), n) ELSE 0,
         avgFleetBatteryTemp |->
            IF n > 0 THEN Round2(Sum(activeVehicleStates, "batteryTemp"), n) ELSE 0]

\* the response of getFleetStats computed from its four results at instant now
FleetStats(got, now) ==
    LET fiveMinutesAgo == now - 5
        activeVehicleStates == {v \in got.vehicleStates : v.lastTimestamp >= fiveMinutesAgo}
        activeMeterStates == {m \in got.meterStates : m.lastTimestamp >= fiveMinutesAgo}
        n == Cardinality(activeVehicleStates)
    IN  [totalVehicles |-> got.totalVehicles,
         totalMeters |-> got.totalMeters,
         activeVehicles |-> n,
         activeMeters |-> Cardinality(activeMeterStates),
         avgFleetSoc |-> IF n > 0 THEN Round2(Sum(activeVehicleStates, "soc"), n) ELSE 0,
         avgFleetBatteryTemp |->
            IF n > 0 THEN Round2(Sum(activeVehicleStates, "batteryTemp"), n) ELSE 0]

(************************* calls and transactions ***************************)
BatchOps == {"batchIngestMeterTelemetry", "batchIngestVehicleTelemetry"}

IdleCall ==
    [op |-> "none", readings |-> <<>>, ids |-> <<>>, latest |-> <<>>, i |-> 1,
     upserts |-> 0, result |-> "none", error |-> "none"]

\* how the callers behave: how full the ledgers may be when a call starts, and
\* whether calls come one at a time (the tables at call start are then recorded)
Concurrent == [room |-> MaxConcLedger, sequential |-> FALSE]
Sequential == [room |-> MaxLedger, sequential |-> TRUE]

\* the handler op starts on the given readings (one dto for the single ingests)
Start(p, op, readings, ids, pre, retry) ==
    /\ pc' = [pc EXCEPT ![p] =
                IF readings = <<>> /\ ids = <<>> /\ op \in BatchOps THEN "cold" ELSE "registry"]
    /\ call' = [call EXCEPT ![p] =
                  [op |-> op, readings |-> readings, ids |-> ids, latest |-> <<>>,
                   i |-> 1, upserts |-> 0, result |-> "pending", error |-> "none"]]
    /\ tx' = [tx EXCEPT ![p] = EmptyTables]
    /\ hist' = [hist EXCEPT ![p] = [pre |-> pre, retry |-> retry]]
    /\ UNCHANGED <<db, ordered, req>>

\* a caller invokes a handler
Invoke(p, op, readings, ids, mode) ==
    /\ pc[p] = "idle"
    /\ Len(db.meterReading) + Len(db.vehicleReading) + Len(readings) <= mode.room
    /\ Start(p, op, readings, ids, IF mode.sequential THEN db ELSE EmptyTables, FALSE)

\* the caller of a call that failed in the service issues the same call again
Retry(p) ==
    /\ pc[p] = "done"
    /\ call[p].result = "failed"
    /\ call[p].error # "BadRequestException"
    /\ Start(p, call[p].op, call[p].readings, call[p].ids, hist[p].pre, TRUE)

\* the caller has its response
Return(p) ==
    /\ pc[p] = "done"
    /\ pc' = [pc EXCEPT ![p] = "idle"]
    /\ call' = [call EXCEPT ![p] = IdleCall]
    /\ hist' = [hist EXCEPT ![p] = [pre |-> EmptyTables, retry |-> FALSE]]
    /\ UNCHANGED <<db, tx, ordered, req>>

CallIngestMeterTelemetry(p, dto, mode) ==
    Invoke(p, "ingestMeterTelemetry", <<dto>>, <<>>, mode)

CallIngestVehicleTelemetry(p, dto, mode) ==
    Invoke(p, "ingestVehicleTelemetry", <<dto>>, <<>>, mode)

CallBatchIngestMeterTelemetry(p, readings, mode) ==
    Invoke(p, "batchIngestMeterTelemetry", readings, meterIds(readings), mode)

CallBatchIngestVehicleTelemetry(p, readings, mode) ==
    Invoke(p, "batchIngestVehicleTelemetry", readings, vehicleIds(readings), mode)

\* one awaited statement of the transaction callback: the writes and locals it leaves
Statement(p, table, rows, next, locals) ==
    /\ tx' = [tx EXCEPT ![p][table] = rows]
    /\ pc' = [pc EXCEPT ![p] = next]
    /\ call' = [call EXCEPT ![p] = locals]
    /\ UNCHANGED <<db, hist, ordered, req>>

\* a statement rejects: the callback throws, $transaction rolls back and rejects
Throw(p, error) ==
    /\ pc' = [pc EXCEPT ![p] = "done"]
    /\ call' = [call EXCEPT ![p].result = "failed", ![p].error = error]
    /\ tx' = [tx EXCEPT ![p] = EmptyTables]
    /\ UNCHANGED <<db, hist, ordered, req>>

\* (mutant) the device is created without looking for it first
FoundNever(p, t, id) == FALSE

\* the SELECT of an upsert with an empty update: is there a row with this key
Found(p, t, id) == \E r \in TxView(p)[t] : r[KeyOf(t)] = id

\* the unique index on the key of table t rejects a second row with key id
UniqueViolation(p, t, id) == \E r \in TxView(p)[t] : r[KeyOf(t)] = id

\* the INSERT of an upsert with an empty update, sent because the SELECT found no row:
\* it waits for an open transaction that wrote the key, then fails on the unique key
\* if the row is there, and inserts otherwise
Insert(p, t, id, create, next, locals) ==
    /\ ~Locked(p, t, id)
    /\ IF UniqueViolation(p, t, id)
       THEN Throw(p, "P2002")
       ELSE Statement(p, t, tx[p][t] \cup {create}, next, locals)

ingestMeterTelemetry(p) ==
    /\ call[p].op = "ingestMeterTelemetry"
    /\ LET dto == call[p].readings[1] IN
       \/ /\ pc[p] = "registry"
          /\ Statement(p, "meter", tx[p].meter,
                IF Found(p, "meter", dto.meterId) THEN "cold" ELSE "create", call[p])
       \/ /\ pc[p] = "create"
          /\ Insert(p, "meter", dto.meterId, meterCreate(dto.meterId), "cold", call[p])
       \/ /\ pc[p] = "cold"
          /\ IF IsValidDate(dto.timestamp)
             THEN Statement(p, "meterReading",
                     Append(tx[p].meterReading, meterReadingData(dto)), "hot", call[p])
             ELSE Throw(p, "PrismaClientValidationError")
       \/ /\ pc[p] = "hot"
          /\ ~Locked(p, "meterCurrentState", dto.meterId)
          /\ Statement(p, "meterCurrentState",
                Upsert(p, "meterCurrentState", dto.meterId,
                       meterCurrentStateUpdate(dto), meterCurrentStateCreate(dto)),
                "commit", [call[p] EXCEPT !.upserts = @ + 1])

ingestVehicleTelemetry(p) ==
    /\ call[p].op = "ingestVehicleTelemetry"
    /\ LET dto == call[p].readings[1] IN
       \/ /\ pc[p] = "registry"
          /\ Statement(p, "vehicle", tx[p].vehicle,
                IF Found(p, "vehicle", dto.vehicleId) THEN "cold" ELSE "create", call[p])
       \/ /\ pc[p] = "create"
          /\ Insert(p, "vehicle", dto.vehicleId, vehicleCreate(dto.vehicleId), "cold",
                    call[p])
       \/ /\ pc[p] = "cold"
          /\ IF IsValidDate(dto.timestamp)
             THEN Statement(p, "vehicleReading",
                     Append(tx[p].vehicleReading, vehicleReadingData(dto)), "hot", call[p])
             ELSE Throw(p, "PrismaClientValidationError")
       \/ /\ pc[p] = "hot"
          /\ ~Locked(p, "vehicleCurrentState", dto.vehicleId)
          /\ Statement(p, "vehicleCurrentState",
                Upsert(p, "vehicleCurrentState", dto.vehicleId,
                       vehicleCurrentStateUpdate(dto), vehicleCurrentStateCreate(dto)),
                "commit", [call[p] EXCEPT !.upserts = @ + 1])

batchIngestMeterTelemetry(p) ==
    /\ call[p].op = "batchIngestMeterTelemetry"
    /\ LET readings == call[p].readings
           i == call[p].i
       IN
       \/ /\ pc[p] = "registry"
          /\ LET meterId == call[p].ids[i] IN
             IF Found(p, "meter", meterId)
             THEN Statement(p, "meter", tx[p].meter,
                     IF i < Len(call[p].ids) THEN "registry" ELSE "cold",
                     [call[p] EXCEPT !.i = IF i < Len(call[p].ids) THEN i + 1 ELSE 1])
             ELSE Statement(p, "meter", tx[p].meter, "create", call[p])
       \/ /\ pc[p] = "create"
          /\ LET meterId == call[p].ids[i] IN
             Insert(p, "meter", meterId, meterCreate(meterId),
                    IF i < Len(call[p].ids) THEN "registry" ELSE "cold",
                    [call[p] EXCEPT !.i = IF i < Len(call[p].ids) THEN i + 1 ELSE 1])
       \/ /\ pc[p] = "cold"
          /\ LET latestBy == latestByMeter(readings) IN
             IF \A j \in DOMAIN readings : IsValidDate(readings[j].timestamp)
             THEN Statement(p, "meterReading",
                     tx[p].meterReading \o meterReadingCreateMany(readings),
                     IF latestBy = <<>> THEN "commit" ELSE "hot",
                     [call[p] EXCEPT !.latest = latestBy, !.i = 1])
             ELSE Throw(p, "PrismaClientValidationError")
       \/ /\ pc[p] = "hot"
          /\ LET latest == call[p].latest[i] IN
             /\ ~Locked(p, "meterCurrentState", latest.meterId)
             /\ Statement(p, "meterCurrentState",
                   Upsert(p, "meterCurrentState", latest.meterId,
                          meterCurrentStateUpdate(latest),
                          meterCurrentStateCreate(latest)),
                   IF i < Len(call[p].latest) THEN "hot" ELSE "commit",
                   [call[p] EXCEPT !.i = i + 1, !.upserts = @ + 1])

batchIngestVehicleTelemetry(p) ==
    /\ call[p].op = "batchIngestVehicleTelemetry"
    /\ LET readings == call[p].readings
           i == call[p].i
       IN
       \/ /\ pc[p] = "registry"
          /\ LET vehicleId == call[p].ids[i] IN
             IF Found(p, "vehicle", vehicleId)
             THEN Statement(p, "vehicle", tx[p].vehicle,
                     IF i < Len(call[p].ids) THEN "registry" ELSE "cold",
                     [call[p] EXCEPT !.i = IF i < Len(call[p].ids) THEN i + 1 ELSE 1])
             ELSE Statement(p, "vehicle", tx[p].vehicle, "create", call[p])
       \/ /\ pc[p] = "create"
          /\ LET vehicleId == call[p].ids[i] IN
             Insert(p, "vehicle", vehicleId, vehicleCreate(vehicleId),
                    IF i < Len(call[p].ids) THEN "registry" ELSE "cold",
                    [call[p] EXCEPT !.i = IF i < Len(call[p].ids) THEN i + 1 ELSE 1])
       \/ /\ pc[p] = "cold"
          /\ LET latestBy == latestByVehicle(readings) IN
             IF \A j \in DOMAIN readings : IsValidDate(readings[j].timestamp)
             THEN Statement(p, "vehicleReading",
                     tx[p].vehicleReading \o vehicleReadingCreateMany(readings),
                     IF latestBy = <<>> THEN "commit" ELSE "hot",
                     [call[p] EXCEPT !.latest = latestBy, !.i = 1])
             ELSE Throw(p, "PrismaClientValidationError")
       \/ /\ pc[p] = "hot"
          /\ LET latest == call[p].latest[i] IN
             /\ ~Locked(p, "vehicleCurrentState", latest.vehicleId)
             /\ Statement(p, "vehicleCurrentState",
                   Upsert(p, "vehicleCurrentState", latest.vehicleId,
                          vehicleCurrentStateUpdate(latest),
                          vehicleCurrentStateCreate(latest)),
                   IF i < Len(call[p].latest) THEN "hot" ELSE "commit",
                   [call[p] EXCEPT !.i = i + 1, !.upserts = @ + 1])

Max(S) == CHOOSE x \in S : \A y \in S : y <= x

\* the observation timestamps of device id in a ledger
Stamps(ledger, k, id) == {ledger[j].timestamp : j \in {n \in DOMAIN ledger : ledger[n][k] = id}}

\* the readings p is committing are, for each device, not all older than a reading
\* the ledger already holds for it (the write stream is correctly ordered)
InOrder(p) ==
    /\ \A id \in MeterIdSet :
          LET new == Stamps(tx[p].meterReading, "meterId", id)
              old == Stamps(db.meterReading, "meterId", id)
          IN  new # {} /\ old # {} => Max(new) >= Max(old)
    /\ \A id \in VehicleIdSet :
          LET new == Stamps(tx[p].vehicleReading, "vehicleId", id)
              old == Stamps(db.vehicleReading, "vehicleId", id)
          IN  new # {} /\ old # {} => Max(new) >= Max(old)

\* prisma.$transaction: the callback returned, the writes become visible together
Commit(p) ==
    /\ pc[p] = "commit"
    /\ db' = TxView(p)
    /\ pc' = [pc EXCEPT ![p] = "done"]
    /\ call' = [call EXCEPT ![p].result = "ok"]
    /\ tx' = [tx EXCEPT ![p] = EmptyTables]
    /\ ordered' = (ordered /\ InOrder(p))
    /\ UNCHANGED <<hist, req>>

\* (mutant) the statements run on the plain client: a failure leaves what was written
RollbackKeepsWrites(p) ==
    /\ InTx(p)
    /\ db' = TxView(p)
    /\ pc' = [pc EXCEPT ![p] = "done"]
    /\ call' = [call EXCEPT ![p].result = "failed", ![p].error = "StorageError"]
    /\ tx' = [tx EXCEPT ![p] = EmptyTables]
    /\ UNCHANGED <<hist, ordered, req>>

\* (mutant) the readings and states are written outside the transaction: a failure
\* leaves them without the device record
RollbackKeepsReadings(p) ==
    /\ InTx(p)
    /\ db' = [TxView(p) EXCEPT !.meter = db.meter, !.vehicle = db.vehicle]
    /\ pc' = [pc EXCEPT ![p] = "done"]
    /\ call' = [call EXCEPT ![p].result = "failed", ![p].error = "StorageError"]
    /\ tx' = [tx EXCEPT ![p] = EmptyTables]
    /\ UNCHANGED <<hist, ordered, req>>

\* (mutant) the device is registered outside the transaction: a failure leaves it
RollbackKeepsDevices(p) ==
    /\ InTx(p)
    /\ db' = [db EXCEPT !.meter = TxView(p).meter, !.vehicle = TxView(p).vehicle]
    /\ pc' = [pc EXCEPT ![p] = "done"]
    /\ call' = [call EXCEPT ![p].result = "failed", ![p].error = "StorageError"]
    /\ tx' = [tx EXCEPT ![p] = EmptyTables]
    /\ UNCHANGED <<hist, ordered, req>>

\* prisma.$transaction: a statement (or the commit) failed, the callback throws
Rollback(p) ==
    /\ InTx(p)
    /\ pc' = [pc EXCEPT ![p] = "done"]
    /\ call' = [call EXCEPT ![p].result = "failed", ![p].error = "StorageError"]
    /\ tx' = [tx EXCEPT ![p] = EmptyTables]
    /\ UNCHANGED <<db, hist, ordered, req>>

Init ==
    /\ db = EmptyTables
    /\ pc = [p \in Procs |-> "idle"]
    /\ call = [p \in Procs |-> IdleCall]
    /\ tx = [p \in Procs |-> EmptyTables]
    /\ hist = [p \in Procs |-> [pre |-> EmptyTables, retry |-> FALSE]]
    /\ ordered = TRUE
    /\ req = IdleReq

Handlers(p) ==
    \/ ingestMeterTelemetry(p)
    \/ ingestVehicleTelemetry(p)
    \/ batchIngestMeterTelemetry(p)
    \/ batchIngestVehicleTelemetry(p)
    \/ Commit(p)
    \/ Rollback(p)
    \/ Retry(p)
    \/ Return(p)

(************************* ValidationPipe and IngestionController ***********)
\* the properties of a DTO class that carry a class-validator decorator
Decorated(metatype) ==
    CASE metatype = "MeterTelemetryDto" -> {"meterId", "kwhConsumedAc", "voltage", "timestamp"}
      [] metatype = "VehicleTelemetryDto" ->
            {"vehicleId", "soc", "kwhDeliveredDc", "batteryTemp", "timestamp"}
      [] metatype = "BatchMeterTelemetryDto" -> {}
      [] metatype = "BatchVehicleTelemetryDto" -> {}

\* the decorators of MeterTelemetryDto
validateMeterTelemetryDto(dto) ==
    /\ dto.meterId # ""
    /\ dto.kwhConsumedAc >= 0
    /\ dto.voltage >= 0 /\ dto.voltage <= 500
    /\ IsDateString(dto.timestamp)

\* the decorators of VehicleTelemetryDto
validateVehicleTelemetryDto(dto) ==
    /\ dto.vehicleId # ""
    /\ dto.soc >= 0 /\ dto.soc <= 100
    /\ dto.kwhDeliveredDc >= 0
    /\ dto.batteryTemp >= 0 - 50 /\ dto.batteryTemp <= 100
    /\ IsDateString(dto.timestamp)

\* new ValidationPipe({whitelist: true, forbidNonWhitelisted: true}): a property of the
\* body without a decorator is refused, then the decorators of the class are checked;
\* the classes of the batch bodies have no decorator, on `readings` or within it
ValidationPipe(metatype, body) ==
    /\ DOMAIN body \subseteq Decorated(metatype)
    /\ CASE metatype = "MeterTelemetryDto" -> validateMeterTelemetryDto(body)
         [] metatype = "VehicleTelemetryDto" -> validateVehicleTelemetryDto(body)
         [] OTHER -> TRUE

\* the pipe answers 400 and the handler is not called
BadRequest(p, op, readings) ==
    /\ pc[p] = "idle"
    /\ pc' = [pc EXCEPT ![p] = "done"]
    /\ call' = [call EXCEPT ![p] =
                  [IdleCall EXCEPT !.op = op, !.readings = readings, !.result = "failed",
                                   !.error = "BadRequestException"]]
    /\ hist' = [hist EXCEPT ![p] = [pre |-> db, retry |-> FALSE]]
    /\ UNCHANGED <<db, tx, ordered, req>>

\* POST v1/ingestion/meter
PostMeter(p, body, mode) ==
    IF ValidationPipe("MeterTelemetryDto", body)
    THEN CallIngestMeterTelemetry(p, body, mode)
    ELSE BadRequest(p, "ingestMeterTelemetry", <<body>>)

\* POST v1/ingestion/vehicle
PostVehicle(p, body, mode) ==
    IF ValidationPipe("VehicleTelemetryDto", body)
    THEN CallIngestVehicleTelemetry(p, body, mode)
    ELSE BadRequest(p, "ingestVehicleTelemetry", <<body>>)

\* POST v1/ingestion/meter/batch
PostMeterBatch(p, body, mode) ==
    IF ValidationPipe("BatchMeterTelemetryDto", body)
    THEN CallBatchIngestMeterTelemetry(p, body.readings, mode)
    ELSE BadRequest(p, "batchIngestMeterTelemetry", body.readings)

\* POST v1/ingestion/vehicle/batch
PostVehicleBatch(p, body, mode) ==
    IF ValidationPipe("BatchVehicleTelemetryDto", body)
    THEN CallBatchIngestVehicleTelemetry(p, body.readings, mode)
    ELSE BadRequest(p, "batchIngestVehicleTelemetry", body.readings)

(************************* association and analytics requests ***************)
\* the instants (in minutes) at which fleet statistics are computed: a reading of 01:00
\* is exactly five minutes or ten minutes old, and one of 02:00 three minutes old
FleetNowSet == {65, 70, 123}

\* the instants at which summaries are requested: before the reading of 02:00, at its
\* very minute, exactly 24 hours after the reading of 01:00 and ten minutes later
SummaryNowSet == {62, 120, 1500, 1510}

\* whether the store checks Vehicle.meterId against the meter table: the schema
\* (prisma/schema.prisma) declares it; the association contract states that the meter
\* id is not validated
VehicleMeterIdChecked == FALSE

\* (mutant) the update has no where-clause that holds: every vehicle is given the meter
associateVehicleWithMeterUpdateMany(vehicleId, meterId) ==
    /\ req.pc = "idle"
    /\ db' = [db EXCEPT !.vehicle = {MergeRow(r, [meterId |-> meterId]) : r \in @}]
    /\ req' = [IdleReq EXCEPT !.op = "associateVehicleWithMeter", !.pc = "done",
                              !.vehicleId = vehicleId, !.meterId = meterId,
                              !.seen = {db},
                              !.result =
                                 IF \E r \in db.vehicle : r.vehicleId = vehicleId
                                 THEN [success |-> TRUE] ELSE [error |-> "P2025"]]
    /\ UNCHANGED <<pc, call, tx, hist, ordered>>

\* prisma.vehicle.update({where: {vehicleId}, data: {meterId}}), one statement on its
\* own: Prisma rejects with P2025 when no row matches
associateVehicleWithMeter(vehicleId, meterId) ==
    /\ req.pc = "idle"
    /\ LET hit == {r \in db.vehicle : r.vehicleId = vehicleId}
           request == [IdleReq EXCEPT !.op = "associateVehicleWithMeter", !.pc = "done",
                                      !.vehicleId = vehicleId, !.meterId = meterId,
                                      !.seen = {db}]
       IN  IF hit = {}
           THEN /\ db' = db
                /\ req' = [request EXCEPT !.result = [error |-> "P2025"]]
           ELSE IF VehicleMeterIdChecked /\ \A m \in db.meter : m.meterId # meterId
           THEN /\ db' = db
                /\ req' = [request EXCEPT !.result = [error |-> "P2003"]]
           ELSE /\ db' = [db EXCEPT !.vehicle =
                            Overlay(@, {MergeRow(r, [meterId |-> meterId]) : r \in hit},
                                    "vehicleId")]
                /\ req' = [request EXCEPT !.result = [success |-> TRUE]]
    /\ UNCHANGED <<pc, call, tx, hist, ordered>>

\* (mutant) a vehicle without CurrentState is given an empty row: find or create
CallGetCurrentStateOrCreate(vehicleId) ==
    /\ req.pc = "idle"
    /\ req' = [IdleReq EXCEPT !.op = "getCurrentState", !.pc = "done",
                              !.vehicleId = vehicleId, !.seen = {db},
                              !.result = getCurrentState(vehicleId)]
    /\ db' = IF \E r \in db.vehicleCurrentState : r.vehicleId = vehicleId THEN db
             ELSE [db EXCEPT !.vehicleCurrentState =
                     @ \cup {[vehicleId |-> vehicleId, soc |-> 0, kwhDeliveredDc |-> 0,
                              batteryTemp |-> 0, lastTimestamp |-> 0]}]
    /\ UNCHANGED <<pc, call, tx, hist, ordered>>

\* GET v1/analytics/current/:vehicleId: one findUnique, answered at once
CallGetCurrentState(vehicleId) ==
    /\ req.pc = "idle"
    /\ req' = [IdleReq EXCEPT !.op = "getCurrentState", !.pc = "done",
                              !.vehicleId = vehicleId, !.seen = {db},
                              !.result = getCurrentState(vehicleId)]
    /\ UNCHANGED <<db, pc, call, tx, hist, ordered>>

CallGetFleetStats ==
    /\ req.pc = "idle"
    /\ req' = [IdleReq EXCEPT !.op = "getFleetStats", !.pc = "queries",
                              !.pending = FleetQueries]
    /\ UNCHANGED <<db, pc, call, tx, hist, ordered>>

\* one of the four queries is answered, in any order, each on the tables committed at
\* that moment; with the last answer the response is computed
getFleetStats ==
    /\ req.op = "getFleetStats" /\ req.pc = "queries"
    /\ \E q \in req.pending :
          LET got == [req.got EXCEPT ![q] = FleetQuery(q, db)]
              seen == req.seen \cup {db}
          IN  IF req.pending = {q}
              THEN \E now \in FleetNowSet :
                      req' = [req EXCEPT !.pc = "done", !.pending = {}, !.got = got,
                                         !.seen = seen, !.now = now,
                                         !.result = FleetStats(got, now)]
              ELSE req' = [req EXCEPT !.pending = @ \ {q}, !.got = got, !.seen = seen]
    /\ UNCHANGED <<db, pc, call, tx, hist, ordered>>

CallGetPerformanceSummary(vehicleId, now) ==
    /\ req.pc = "idle"
    /\ req' = [IdleReq EXCEPT !.op = "getPerformanceSummary", !.pc = "vehicle",
                              !.vehicleId = vehicleId, !.now = now]
    /\ UNCHANGED <<db, pc, call, tx, hist, ordered>>

\* the three awaited queries, each on the tables committed at that moment
getPerformanceSummary ==
    /\ req.op = "getPerformanceSummary"
    /\ LET periodEnd == req.now
           periodStart == periodEnd - 24 * 60
           seen == req.seen \cup {db}
       IN
       \/ /\ req.pc = "vehicle"
          /\ LET vehicle == {r \in db.vehicle : r.vehicleId = req.vehicleId} IN
             IF vehicle = {}
             THEN req' = [req EXCEPT !.pc = "done", !.seen = seen,
                                     !.result = NotFoundException]
             ELSE req' = [req EXCEPT !.pc = "vehicleReadings", !.seen = seen,
                                     !.meterId = (CHOOSE r \in vehicle : TRUE).meterId]
       \/ /\ req.pc = "vehicleReadings"
          /\ \E vehicleReadings \in FindManyAsc(db.vehicleReading, "vehicleId",
                                                 req.vehicleId, periodStart, periodEnd) :
                IF req.meterId # NULL
                THEN req' = [req EXCEPT !.pc = "meterReadings", !.seen = seen,
                                        !.vehicleReadings = vehicleReadings]
                ELSE req' = [req EXCEPT !.pc = "done", !.seen = seen,
                                        !.vehicleReadings = vehicleReadings,
                                        !.result = PerformanceSummary(
                                            req.vehicleId, req.meterId, req.now,
                                            vehicleReadings, <<>>)]
       \/ /\ req.pc = "meterReadings"
          /\ \E meterReadings \in FindManyAsc(db.meterReading, "meterId", req.meterId,
                                               periodStart, periodEnd) :
                req' = [req EXCEPT !.pc = "done", !.seen = seen,
                                   !.result = PerformanceSummary(
                                       req.vehicleId, req.meterId, req.now,
                                       req.vehicleReadings, meterReadings)]
    /\ UNCHANGED <<db, pc, call, tx, hist, ordered>>

\* the request has its response
Respond ==
    /\ req.pc = "done"
    /\ req' = IdleReq
    /\ UNCHANGED <<db, pc, call, tx, hist, ordered>>

(* Concurrent callers: every interleaving of the awaited statements. *)
ConcMeterDto ==
    {d \in MeterTelemetryDto :
        /\ d.timestamp.offset = 0
        /\ d.kwhConsumedAc = IF d.timestamp.wall = 1 THEN 1000 ELSE 1005
        /\ d.meterId = "METER-002" => d.timestamp.wall = 1}
ConcVehicleDto ==
    {d \in VehicleTelemetryDto :
        /\ d.timestamp.offset = 0
        /\ d.soc = IF d.timestamp.wall = 1 THEN 50 ELSE 60
        /\ d.vehicleId = "VEH-002" => d.timestamp.wall = 1}

Next ==
    \E p \in Procs :
        \/ \E dto \in ConcMeterDto : CallIngestMeterTelemetry(p, dto, Concurrent)
        \/ \E dto \in ConcVehicleDto : CallIngestVehicleTelemetry(p, dto, Concurrent)
        \/ \E rs \in SeqUpTo(ConcMeterDto, MaxConcBatch) :
              CallBatchIngestMeterTelemetry(p, rs, Concurrent)
        \/ \E rs \in SeqUpTo(ConcVehicleDto, MaxConcBatch) :
              CallBatchIngestVehicleTelemetry(p, rs, Concurrent)
        \/ Handlers(p)

Spec == Init /\ [][Next]_vars

(* One caller at a time: calls run to completion one after the other. *)
SeqNext ==
    \/ \E dto \in MeterTelemetryDto : CallIngestMeterTelemetry(1, dto, Sequential)
    \/ \E dto \in VehicleTelemetryDto : CallIngestVehicleTelemetry(1, dto, Sequential)
    \/ \E rs \in SeqUpTo(MeterTelemetryDto, MaxBatch) :
          CallBatchIngestMeterTelemetry(1, rs, Sequential)
    \/ \E rs \in SeqUpTo(VehicleTelemetryDto, MaxBatch) :
          CallBatchIngestVehicleTelemetry(1, rs, Sequential)
    \/ Handlers(1)

SeqSpec == Init /\ [][SeqNext]_vars

(* One ingesting caller, and association and analytics requests served meanwhile. *)
Reading == [room |-> MaxReadLedger, sequential |-> FALSE]

ReadNext ==
    \/ \E dto \in ConcMeterDto : CallIngestMeterTelemetry(1, dto, Reading)
    \/ \E dto \in ConcVehicleDto : CallIngestVehicleTelemetry(1, dto, Reading)
    \/ \E rs \in SeqUpTo(ConcMeterDto, MaxReadBatch) :
          CallBatchIngestMeterTelemetry(1, rs, Reading)
    \/ \E rs \in SeqUpTo(ConcVehicleDto, MaxReadBatch) :
          CallBatchIngestVehicleTelemetry(1, rs, Reading)
    \/ Handlers(1)
    \/ \E vehicleId \in VehicleIdSet, meterId \in MeterIdSet :
          associateVehicleWithMeter(vehicleId, meterId)
    \/ CallGetFleetStats
    \/ getFleetStats
    \/ \E vehicleId \in VehicleIdSet, now \in SummaryNowSet :
          CallGetPerformanceSummary(vehicleId, now)
    \/ getPerformanceSummary
    \/ \E vehicleId \in VehicleIdSet : CallGetCurrentState(vehicleId)
    \/ Respond

ReadSpec == Init /\ [][ReadNext]_vars

(* One client posting request bodies, some of them out of range or malformed, and one
   caller inside the process handing batches to the service. *)
MeterBodies ==
    {[meterId |-> m, kwhConsumedAc |-> v[1], voltage |-> v[2], timestamp |-> s] :
        m \in MeterIdSet, s \in BodyStrings,
        v \in {<<1000, 230>>, <<0, 500>>, <<0 - 1, 230>>, <<1000, 501>>, <<1000, 0 - 1>>}}

VehicleBodies ==
    {[vehicleId |-> "VEH-001", soc |-> v[1], kwhDeliveredDc |-> v[2],
      batteryTemp |-> v[3], timestamp |-> s] :
        s \in BodyStrings,
        v \in {<<50, 800, 30>>, <<0, 0, 0 - 50>>, <<100, 0, 100>>, <<101, 800, 30>>,
               <<0 - 1, 800, 30>>, <<50, 0 - 1, 30>>, <<50, 800, 0 - 51>>,
               <<50, 800, 101>>}}

\* the readings batches are made of: in range or with a negative energy, with each
\* form of timestamp
MeterBatchBodies == {b \in MeterBodies : b.meterId = "METER-001" /\ b.voltage = 230}
VehicleBatchBodies == {b \in VehicleBodies : b.soc = 50 /\ b.batteryTemp = 30}

Http == [room |-> MaxHttpLedger, sequential |-> TRUE]

HttpNext ==
    \/ \E body \in MeterBodies : PostMeter(1, body, Http)
    \/ \E body \in VehicleBodies : PostVehicle(1, body, Http)
    \/ \E rs \in SeqUpTo(MeterBatchBodies, MaxHttpBatch) :
          PostMeterBatch(1, [readings |-> rs], Http)
    \/ \E rs \in SeqUpTo(VehicleBatchBodies, MaxHttpBatch) :
          PostVehicleBatch(1, [readings |-> rs], Http)
    \/ \E rs \in SeqUpTo(MeterBatchBodies, MaxHttpBatch) :
          CallBatchIngestMeterTelemetry(1, rs, Http)
    \/ \E rs \in SeqUpTo(VehicleBatchBodies, MaxHttpBatch) :
          CallBatchIngestVehicleTelemetry(1, rs, Http)
    \/ Handlers(1)

HttpSpec == Init /\ [][HttpNext]_vars

(****************************** properties **********************************)
RowsOf(table, k, id) == {r \in table : r[k] = id}
ReadingsOf(ledger, k, id) == {ledger[j] : j \in {n \in DOMAIN ledger : ledger[n][k] = id}}

Done(p) == pc[p] = "done" /\ call[p].result = "ok"
Failed(p) == pc[p] = "done" /\ call[p].result = "failed"

SingleOps == {"ingestMeterTelemetry", "ingestVehicleTelemetry"}
MeterOps == {"ingestMeterTelemetry", "batchIngestMeterTelemetry"}

\* the readings of a batch that belong to device id
OfDevice(readings, k, id) == {readings[j] : j \in {n \in DOMAIN readings : readings[n][k] = id}}

\* the tables one successful call of op on readings leaves, started on tables pre
EffectOf(pre, op, readings) ==
    IF op \in MeterOps
    THEN LET ids == {readings[j].meterId : j \in DOMAIN readings}
             winners == IF op \in SingleOps THEN readings ELSE latestByMeter(readings)
         IN  [pre EXCEPT
                !.meter = @ \cup {meterCreate(id) :
                                    id \in {x \in ids : RowsOf(pre.meter, "meterId", x) = {}}},
                !.meterReading = @ \o meterReadingCreateMany(readings),
                !.meterCurrentState =
                    Overlay(@, {meterCurrentStateCreate(winners[j]) : j \in DOMAIN winners},
                            "meterId")]
    ELSE LET ids == {readings[j].vehicleId : j \in DOMAIN readings}
             winners == IF op \in SingleOps THEN readings ELSE latestByVehicle(readings)
         IN  [pre EXCEPT
                !.vehicle = @ \cup {vehicleCreate(id) :
                                    id \in {x \in ids : RowsOf(pre.vehicle, "vehicleId", x) = {}}},
                !.vehicleReading = @ \o vehicleReadingCreateMany(readings),
                !.vehicleCurrentState =
                    Overlay(@, {vehicleCurrentStateCreate(winners[j]) : j \in DOMAIN winners},
                            "vehicleId")]

(* C1: in every committed state, under every interleaving of concurrent ingest and
   batch-ingest calls that may fail at any statement, a device has a CurrentState row
   if and only if it has a Reading row, and the CurrentState row carries the values and
   timestamp of one of the device's Reading rows. *)
C1_ColdHotNeverDiverge ==
    /\ \A id \in MeterIdSet :
          LET hot == RowsOf(db.meterCurrentState, "meterId", id)
              cold == ReadingsOf(db.meterReading, "meterId", id)
          IN  /\ (hot # {}) <=> (cold # {})
              /\ \A s \in hot : \E r \in cold :
                    /\ s.kwhConsumedAc = r.kwhConsumedAc
                    /\ s.voltage = r.voltage
                    /\ s.lastTimestamp = r.timestamp
    /\ \A id \in VehicleIdSet :
          LET hot == RowsOf(db.vehicleCurrentState, "vehicleId", id)
              cold == ReadingsOf(db.vehicleReading, "vehicleId", id)
          IN  /\ (hot # {}) <=> (cold # {})
              /\ \A s \in hot : \E r \in cold :
                    /\ s.soc = r.soc
                    /\ s.kwhDeliveredDc = r.kwhDeliveredDc
                    /\ s.batteryTemp = r.batteryTemp
                    /\ s.lastTimestamp = r.timestamp

\* one call failed after its hot write while another, holding a cold write and no hot
\* write yet, runs over tables an earlier call committed to
C1_Witness ==
    \E p, q \in Procs :
        /\ Failed(p) /\ call[p].upserts > 0
        /\ pc[q] = "hot" /\ call[q].upserts = 0
        /\ tx[q].meterReading # <<>> \/ tx[q].vehicleReading # <<>>
        /\ db.meterCurrentState # {} \/ db.vehicleCurrentState # {}

(* C2: a call that fails at any statement reports failure and leaves the device
   tables, the ledgers and the CurrentState tables as they were when it started (no
   statement's write is visible before the commit either); the same call issued again
   and succeeding leaves what one successful call leaves. *)
C2_FailureRollsBackRetrySucceeds ==
    /\ InTx(1) \/ Failed(1) => db = hist[1].pre
    /\ Done(1) /\ hist[1].retry =>
          db = EffectOf(hist[1].pre, call[1].op, call[1].readings)

\* a batch that failed was issued again and succeeded, changing the tables
C2_Witness ==
    /\ Done(1) /\ hist[1].retry
    /\ call[1].op \in BatchOps
    /\ Len(call[1].readings) > 1
    /\ db # hist[1].pre

\* CurrentState.lastTimestamp of every device is the newest timestamp of its ledger rows
LastTimestampIsMax ==
    /\ \A id \in MeterIdSet : \A s \in RowsOf(db.meterCurrentState, "meterId", id) :
          LET stamps == Stamps(db.meterReading, "meterId", id)
          IN  stamps # {} /\ s.lastTimestamp = Max(stamps)
    /\ \A id \in VehicleIdSet : \A s \in RowsOf(db.vehicleCurrentState, "vehicleId", id) :
          LET stamps == Stamps(db.vehicleReading, "vehicleId", id)
          IN  stamps # {} /\ s.lastTimestamp = Max(stamps)

(* C3 as stated: after any sequence of successful ingest and batch-ingest calls,
   CurrentState.lastTimestamp of every device is the maximum observation timestamp of
   all readings accepted for it. *)
C3_LastTimestampNeverRegresses == LastTimestampIsMax

(* C3 amended: after a sequence of successful calls none of which brought a device
   only readings older than one already accepted for it (a correctly ordered write
   stream), CurrentState.lastTimestamp of every device is the maximum observation
   timestamp of all readings accepted for it. *)
C3_LastTimestampIsMaxWhenOrdered == ordered => LastTimestampIsMax

\* a second call added readings to a device that then has two different timestamps
C3_Witness ==
    /\ ordered /\ Done(1)
    /\ hist[1].pre.meterReading # <<>> /\ db.meterReading # hist[1].pre.meterReading
    /\ \E id \in MeterIdSet : Cardinality(Stamps(db.meterReading, "meterId", id)) > 1

(* C4: a successful single-reading ingest for a device that has a CurrentState row
   leaves that row equal to the incoming reading (values and timestamp), whatever the
   stored lastTimestamp was, also when the incoming timestamp is older. *)
C4_SingleIngestOverwrites ==
    Done(1) /\ call[1].op \in SingleOps =>
        LET dto == call[1].readings[1] IN
        IF call[1].op = "ingestMeterTelemetry"
        THEN RowsOf(hist[1].pre.meterCurrentState, "meterId", dto.meterId) # {} =>
                RowsOf(db.meterCurrentState, "meterId", dto.meterId) =
                    {[meterId |-> dto.meterId, kwhConsumedAc |-> dto.kwhConsumedAc,
                      voltage |-> dto.voltage, lastTimestamp |-> Date(dto.timestamp)]}
        ELSE RowsOf(hist[1].pre.vehicleCurrentState, "vehicleId", dto.vehicleId) # {} =>
                RowsOf(db.vehicleCurrentState, "vehicleId", dto.vehicleId) =
                    {[vehicleId |-> dto.vehicleId, soc |-> dto.soc,
                      kwhDeliveredDc |-> dto.kwhDeliveredDc,
                      batteryTemp |-> dto.batteryTemp,
                      lastTimestamp |-> Date(dto.timestamp)]}

\* a single ingest succeeded with a timestamp older than the stored lastTimestamp
C4_Witness ==
    /\ Done(1) /\ call[1].op = "ingestMeterTelemetry"
    /\ \E s \in RowsOf(hist[1].pre.meterCurrentState, "meterId",
                        call[1].readings[1].meterId) :
          /\ s.lastTimestamp > Date(call[1].readings[1].timestamp)
          /\ s.kwhConsumedAc # call[1].readings[1].kwhConsumedAc

(* C5: right after a successful ingestVehicleTelemetry(r), on any prior state,
   getCurrentState(r.vehicleId) returns r's soc, kwhDeliveredDc and batteryTemp with
   lastUpdated the instant of r's timestamp. *)
C5_IngestThenCurrentState ==
    Done(1) /\ call[1].op = "ingestVehicleTelemetry" =>
        LET r == call[1].readings[1] IN
        getCurrentState(r.vehicleId) =
            [vehicleId |-> r.vehicleId, currentSoc |-> r.soc,
             currentBatteryTemp |-> r.batteryTemp,
             lastKwhDeliveredDc |-> r.kwhDeliveredDc,
             lastUpdated |-> Date(r.timestamp)]

\* the vehicle had a CurrentState row with other values, and the timestamp is given
\* with a UTC offset
C5_Witness ==
    /\ Done(1) /\ call[1].op = "ingestVehicleTelemetry"
    /\ call[1].readings[1].timestamp.offset # 0
    /\ \E s \in RowsOf(hist[1].pre.vehicleCurrentState, "vehicleId",
                        call[1].readings[1].vehicleId) :
          s.soc # call[1].readings[1].soc

\* the reduction of the running batch call is computed
Reduced(p) == call[p].op \in BatchOps /\ (pc[p] \in {"hot", "commit"} \/ Done(p))

DeviceKey(op) == IF op \in MeterOps THEN "meterId" ELSE "vehicleId"

DeviceIds(readings, k) == {readings[j][k] : j \in DOMAIN readings}

NewestStamp(readings, k, id) == Max({Date(r.timestamp) : r \in OfDevice(readings, k, id)})

(* C6: in a batch ingest, for every device id of the batch and every input order, the
   reading selected to update CurrentState is one reading of that device with the
   maximum observation timestamp among the device's readings of the batch, and that
   timestamp is the lastTimestamp written. *)
C6_BatchWinnerHasMaxTimestamp ==
    Reduced(1) =>
        LET k == DeviceKey(call[1].op)
            readings == call[1].readings
            latest == call[1].latest
            state == IF k = "meterId" THEN db.meterCurrentState
                     ELSE db.vehicleCurrentState
        IN  \A id \in DeviceIds(readings, k) :
              /\ Cardinality({j \in DOMAIN latest : latest[j][k] = id}) = 1
              /\ \A j \in DOMAIN latest : latest[j][k] = id =>
                    /\ latest[j] \in OfDevice(readings, k, id)
                    /\ Date(latest[j].timestamp) = NewestStamp(readings, k, id)
              /\ Done(1) => \A s \in RowsOf(state, k, id) :
                    s.lastTimestamp = NewestStamp(readings, k, id)

\* a batch whose newest reading of a device comes first was reduced and committed
C6_Witness ==
    /\ Done(1) /\ call[1].op \in BatchOps /\ Len(call[1].readings) > 1
    /\ LET k == DeviceKey(call[1].op) IN
       /\ call[1].readings[1][k] = call[1].readings[2][k]
       /\ Date(call[1].readings[1].timestamp) > Date(call[1].readings[2].timestamp)

\* the CurrentState row the code writes for a reading
StateRow(op, r) ==
    IF op \in MeterOps
    THEN [meterId |-> r.meterId, kwhConsumedAc |-> r.kwhConsumedAc,
          voltage |-> r.voltage, lastTimestamp |-> Date(r.timestamp)]
    ELSE [vehicleId |-> r.vehicleId, soc |-> r.soc, kwhDeliveredDc |-> r.kwhDeliveredDc,
          batteryTemp |-> r.batteryTemp, lastTimestamp |-> Date(r.timestamp)]

StateTable(tables, op) ==
    IF op \in MeterOps THEN tables.meterCurrentState ELSE tables.vehicleCurrentState

\* the last position of the batch holding a reading of device id with its newest timestamp
LastNewest(readings, k, id) ==
    Max({j \in DOMAIN readings :
            /\ readings[j][k] = id
            /\ Date(readings[j].timestamp) = NewestStamp(readings, k, id)})

(* C7: in a batch ingest, when several readings of a device share its maximum
   observation timestamp, the one occurring last in the input is written to
   CurrentState. *)
C7_TieGoesToLastOccurrence ==
    Done(1) /\ call[1].op \in BatchOps =>
        LET k == DeviceKey(call[1].op)
            readings == call[1].readings
        IN  \A id \in DeviceIds(readings, k) :
              RowsOf(StateTable(db, call[1].op), k, id) =
                  {StateRow(call[1].op, readings[LastNewest(readings, k, id)])}

\* the same-device permutations of a batch: each position keeps its device
SameDevicePermutations(readings, k) ==
    {[i \in DOMAIN readings |-> readings[f[i]]] :
        f \in {g \in [DOMAIN readings -> DOMAIN readings] :
                  /\ \A i, j \in DOMAIN readings : i # j => g[i] # g[j]
                  /\ \A i \in DOMAIN readings : readings[g[i]][k] = readings[i][k]}}

\* single-reading ingest applied to a CurrentState table
SingleIngestState(table, op, r) == Overlay(table, {StateRow(op, r)}, DeviceKey(op))

\* single-reading ingest applied once per reading of winners, in sequence order
RECURSIVE SingleIngestEach(_, _, _)
SingleIngestEach(table, op, winners) ==
    IF winners = <<>> THEN table
    ELSE SingleIngestEach(SingleIngestState(table, op, Head(winners)), op, Tail(winners))

\* no device of the batch has two readings with its newest timestamp and other values
NoTieWithOtherValues(op, readings) ==
    LET k == DeviceKey(op) IN
    \A r1, r2 \in {readings[j] : j \in DOMAIN readings} :
        /\ r1[k] = r2[k]
        /\ Date(r1.timestamp) = NewestStamp(readings, k, r1[k])
        /\ Date(r2.timestamp) = NewestStamp(readings, k, r1[k])
        => StateRow(op, r1) = StateRow(op, r2)

\* a single ingest leaves the CurrentState table with its reading applied
SingleIngestIsSingleIngestState ==
    Done(1) /\ call[1].op \in SingleOps =>
        StateTable(db, call[1].op) =
            SingleIngestState(StateTable(hist[1].pre, call[1].op), call[1].op,
                              call[1].readings[1])

(* C8 as stated: for every batch and prior state, CurrentState after the batch ingest
   is what single-reading ingest, applied once per device with the selected winner,
   gives, and it is the same for every permutation of the same-device readings. *)
C8_BatchEqualsSinglePerWinner ==
    /\ SingleIngestIsSingleIngestState
    /\ Done(1) /\ call[1].op \in BatchOps =>
          LET op == call[1].op
              pre == StateTable(hist[1].pre, op)
          IN  /\ StateTable(db, op) = SingleIngestEach(pre, op, call[1].latest)
              /\ \A perm \in SameDevicePermutations(call[1].readings, DeviceKey(op)) :
                    StateTable(EffectOf(hist[1].pre, op, perm), op) = StateTable(db, op)

\* one reading per device of the batch carrying the device's newest timestamp
NewestPerDevice(readings, k) ==
    SetSpread([j \in DOMAIN readings |->
        CHOOSE r \in OfDevice(readings, k, readings[j][k]) :
            Date(r.timestamp) = NewestStamp(readings, k, readings[j][k])])

(* C8 amended: for every prior state and every batch in which no device has two
   readings that share its maximum timestamp and differ in their values, CurrentState
   after the batch ingest is what single-reading ingest, applied once per device with
   a maximum-timestamp reading of that device, gives, and it is the same for every
   permutation of the same-device readings. *)
C8_BatchEqualsSinglePerWinnerNoTies ==
    /\ SingleIngestIsSingleIngestState
    /\ Done(1) /\ call[1].op \in BatchOps
          /\ NoTieWithOtherValues(call[1].op, call[1].readings) =>
          LET op == call[1].op
              pre == StateTable(hist[1].pre, op)
          IN  /\ StateTable(db, op) =
                    SingleIngestEach(pre, op,
                        NewestPerDevice(call[1].readings, DeviceKey(op)))
              /\ \A perm \in SameDevicePermutations(call[1].readings, DeviceKey(op)) :
                    StateTable(EffectOf(hist[1].pre, op, perm), op) = StateTable(db, op)

\* a batch with two readings of one device, the newer first, replaced the device's row
C8_Witness ==
    /\ Done(1) /\ call[1].op = "batchIngestVehicleTelemetry"
    /\ Len(call[1].readings) > 1
    /\ call[1].readings[1].vehicleId = call[1].readings[2].vehicleId
    /\ Date(call[1].readings[1].timestamp) > Date(call[1].readings[2].timestamp)
    /\ call[1].readings[1].soc # call[1].readings[2].soc

(* C9: a successful batch ingest issues exactly one CurrentState upsert per distinct
   device id of the batch, however many readings each device has in it. *)
C9_OneHotWritePerDevice ==
    Done(1) /\ call[1].op \in BatchOps =>
        call[1].upserts = Cardinality(DeviceIds(call[1].readings, DeviceKey(call[1].op)))

\* a batch with more readings than devices was committed
C9_Witness ==
    /\ Done(1) /\ call[1].op \in BatchOps
    /\ Len(call[1].readings) >
            Cardinality(DeviceIds(call[1].readings, DeviceKey(call[1].op)))

(* C10: a successful batch ingest leaves the ledger it writes equal to the ledger
   before the call followed by one row per reading of the batch, in input order,
   losers of the reduction and repeated (device, timestamp) pairs included; the other
   ledger is unchanged. *)
C10_BatchAppendsEveryReading ==
    Done(1) /\ call[1].op \in BatchOps =>
        LET readings == call[1].readings
            pre == hist[1].pre
        IN  IF call[1].op = "batchIngestMeterTelemetry"
            THEN /\ db.meterReading = pre.meterReading \o
                        [j \in DOMAIN readings |->
                            [meterId |-> readings[j].meterId,
                             kwhConsumedAc |-> readings[j].kwhConsumedAc,
                             voltage |-> readings[j].voltage,
                             timestamp |-> Date(readings[j].timestamp)]]
                 /\ db.vehicleReading = pre.vehicleReading
            ELSE /\ db.vehicleReading = pre.vehicleReading \o
                        [j \in DOMAIN readings |->
                            [vehicleId |-> readings[j].vehicleId,
                             soc |-> readings[j].soc,
                             kwhDeliveredDc |-> readings[j].kwhDeliveredDc,
                             batteryTemp |-> readings[j].batteryTemp,
                             timestamp |-> Date(readings[j].timestamp)]]
                 /\ db.meterReading = pre.meterReading

\* a batch holding the same (device, timestamp) twice was committed
C10_Witness ==
    /\ Done(1) /\ call[1].op = "batchIngestMeterTelemetry"
    /\ Len(call[1].readings) > 1
    /\ call[1].readings[1].meterId = call[1].readings[2].meterId
    /\ Date(call[1].readings[1].timestamp) = Date(call[1].readings[2].timestamp)
    /\ Len(db.meterReading) = Len(hist[1].pre.meterReading) + Len(call[1].readings)
(* C11: one caller, calls one after the other.  A device id has at most one device
   record; after a successful ingest every device of the call has exactly one, a
   device that was registered before keeps the record it had, and no call fails
   because the device record already exists. *)
C11_RegistrationIdempotent ==
    /\ \A id \in MeterIdSet : Cardinality(RowsOf(db.meter, "meterId", id)) <= 1
    /\ \A id \in VehicleIdSet : Cardinality(RowsOf(db.vehicle, "vehicleId", id)) <= 1
    /\ call[1].error # "P2002"
    /\ Done(1) =>
          LET k == DeviceKey(call[1].op)
              t == IF call[1].op \in MeterOps THEN "meter" ELSE "vehicle"
          IN  \A id \in DeviceIds(call[1].readings, k) :
                 /\ Cardinality(RowsOf(db[t], k, id)) = 1
                 /\ RowsOf(hist[1].pre[t], k, id) # {} =>
                        RowsOf(db[t], k, id) = RowsOf(hist[1].pre[t], k, id)

\* the reading that registered a meter was ingested a second time
C11_Witness ==
    /\ Done(1) /\ call[1].op = "ingestMeterTelemetry"
    /\ LET dto == call[1].readings[1] IN
       /\ hist[1].pre.meter = {meterCreate(dto.meterId)}
       /\ hist[1].pre.meterReading = <<meterReadingData(dto)>>
       /\ db.meterReading = <<meterReadingData(dto), meterReadingData(dto)>>
       /\ db.meter = {meterCreate(dto.meterId)}

(* C12: concurrent callers.  In every interleaving a device id has at most one device
   record, every device of a committed call has one, and no call fails because the
   device record already exists. *)
C12_ConcurrentRegistrationNeverFails ==
    /\ \A id \in MeterIdSet : Cardinality(RowsOf(db.meter, "meterId", id)) <= 1
    /\ \A id \in VehicleIdSet : Cardinality(RowsOf(db.vehicle, "vehicleId", id)) <= 1
    /\ \A p \in Procs :
          /\ call[p].error # "P2002"
          /\ pc[p] = "done" /\ call[p].result = "ok" =>
                LET k == DeviceKey(call[p].op)
                    t == IF call[p].op \in MeterOps THEN "meter" ELSE "vehicle"
                IN  \A id \in DeviceIds(call[p].readings, k) : RowsOf(db[t], k, id) # {}

\* call p commits its transaction in this step
Commits(p) == pc[p] = "commit" /\ pc'[p] = "done" /\ call'[p].result = "ok"

(* C13: concurrent callers.  Whenever a single-reading ingest commits, whatever other
   calls for the same device are open or have committed before it, the committed
   CurrentState row of its device is exactly its reading (all values and the
   timestamp) and the committed ledger is the ledger before with its reading appended:
   of two calls that both commit, the one that commits last leaves the row, and the
   ledger holds both readings. *)
C13_LastCommitWins ==
    [][\A p \in Procs :
          Commits(p) /\ call[p].op \in SingleOps =>
             LET r == call[p].readings[1] IN
             IF call[p].op = "ingestMeterTelemetry"
             THEN /\ RowsOf(db'.meterCurrentState, "meterId", r.meterId) =
                        {meterCurrentStateCreate(r)}
                  /\ db'.meterReading = Append(db.meterReading, meterReadingData(r))
             ELSE /\ RowsOf(db'.vehicleCurrentState, "vehicleId", r.vehicleId) =
                        {vehicleCurrentStateCreate(r)}
                  /\ db'.vehicleReading = Append(db.vehicleReading, vehicleReadingData(r))
      ]_vars

\* two single ingests for one vehicle have both committed; the one with the older
\* timestamp committed last and the row carries its values
C13_Witness ==
    \E p, q \in Procs :
        /\ p # q /\ Done(p) /\ Done(q)
        /\ call[p].op = "ingestVehicleTelemetry" /\ call[q].op = "ingestVehicleTelemetry"
        /\ LET a == call[p].readings[1]
               b == call[q].readings[1]
           IN  /\ a.vehicleId = b.vehicleId
               /\ Date(b.timestamp) < Date(a.timestamp)
               /\ db.vehicleReading = <<vehicleReadingData(a), vehicleReadingData(b)>>
               /\ db.vehicleCurrentState = {vehicleCurrentStateCreate(b)}

\* how often each row occurs in a ledger
Occurrences(ledger) ==
    [x \in {ledger[j] : j \in DOMAIN ledger} |->
        Cardinality({j \in DOMAIN ledger : ledger[j] = x})]

\* the same device records, CurrentState rows and ledger rows
SameRows(a, b) ==
    /\ \A t \in KeyedTables : a[t] = b[t]
    /\ \A t \in LedgerTables : Occurrences(a[t]) = Occurrences(b[t])

DeviceTable(op) == IF op \in MeterOps THEN "meter" ELSE "vehicle"

\* the calls of p and q have no device in common
DifferentDevices(p, q) ==
    \/ DeviceTable(call[p].op) # DeviceTable(call[q].op)
    \/ DeviceIds(call[p].readings, DeviceKey(call[p].op)) \cap
          DeviceIds(call[q].readings, DeviceKey(call[q].op)) = {}

\* the row p's next statement writes: its table and key, or none
NextWrite(p) ==
    IF pc[p] \notin {"create", "hot"} THEN {}
    ELSE LET k == DeviceKey(call[p].op)
             r == IF call[p].op \in SingleOps THEN call[p].readings[1]
                  ELSE call[p].latest[call[p].i]
         IN  IF pc[p] = "create"
             THEN {<<DeviceTable(call[p].op),
                     IF call[p].op \in SingleOps THEN r[k] ELSE call[p].ids[call[p].i]>>}
             ELSE {<<IF call[p].op \in MeterOps THEN "meterCurrentState"
                     ELSE "vehicleCurrentState", r[k]>>}

(* C14: concurrent callers.  (a) A commit leaves exactly what the call leaves when run
   alone on the tables committed so far, and for a call q open at that moment on other
   devices, running the two calls one after the other in either order leaves the same
   device records, CurrentState rows and ledger rows.  (b) A call waits for a row only
   if an open call on the same device wrote it, and (c) fails on the unique key only
   if a call for the same device committed the record. *)
C14_DifferentDevicesIndependent ==
    [][\A p \in Procs :
          /\ Commits(p) =>
                /\ db' = EffectOf(db, call[p].op, call[p].readings)
                /\ \A q \in Procs \ {p} :
                      InTx(q) /\ DifferentDevices(p, q) =>
                         SameRows(EffectOf(db', call[q].op, call[q].readings),
                                  EffectOf(EffectOf(db, call[q].op, call[q].readings),
                                           call[p].op, call[p].readings))
          /\ \A w \in NextWrite(p) :
                /\ Locked(p, w[1], w[2]) =>
                      \E q \in Procs \ {p} :
                         /\ InTx(q) /\ ~DifferentDevices(p, q)
                         /\ \E r \in tx[q][w[1]] : r[KeyOf(w[1])] = w[2]
                /\ call'[p].error = "P2002" /\ call[p].error # "P2002" =>
                      \E r \in db[w[1]] : r[KeyOf(w[1])] = w[2]
      ]_vars

\* two calls for different meters are open at once, each with all its writes made,
\* on tables that already hold committed rows
C14_Witness ==
    \E p, q \in Procs :
        /\ p # q /\ pc[p] = "commit" /\ pc[q] = "commit"
        /\ call[p].op \in MeterOps /\ call[q].op \in MeterOps
        /\ DifferentDevices(p, q)
        /\ tx[p].meterCurrentState # {} /\ tx[q].meterCurrentState # {}
        /\ db.meterCurrentState # {}

\* the response of getFleetStats when all four queries see the tables S
FleetStatsOn(S, now) == FleetStats([q \in FleetQueries |-> FleetQuery(q, S)], now)

\* the responses getPerformanceSummary can give when all its queries see the tables S
PerformanceSummaryOn(S, vehicleId, now) ==
    LET vehicle == {r \in S.vehicle : r.vehicleId = vehicleId}
        meterId == (CHOOSE r \in vehicle : TRUE).meterId
    IN  IF vehicle = {} THEN {NotFoundException}
        ELSE {PerformanceSummary(vehicleId, meterId, now, vr, mr) :
                 vr \in FindManyAsc(S.vehicleReading, "vehicleId", vehicleId,
                                    now - 24 * 60, now),
                 mr \in IF meterId = NULL THEN {<<>>}
                        ELSE FindManyAsc(S.meterReading, "meterId", meterId,
                                         now - 24 * 60, now)}

\* the request is answered, and while its queries ran at most one ingest transaction
\* committed: the queries saw the tables before it, after it, or both
RacedWithOneIngest ==
    /\ req.pc = "done"
    /\ \E a, b \in req.seen :
          /\ req.seen = {a, b}
          /\ a # b => /\ Done(1) /\ db = b
                      /\ b = EffectOf(a, call[1].op, call[1].readings)

FleetReadIsSnapshot ==
    RacedWithOneIngest /\ req.op = "getFleetStats" =>
        req.result \in {FleetStatsOn(S, req.now) : S \in req.seen}

SummaryReadIsSnapshot ==
    RacedWithOneIngest /\ req.op = "getPerformanceSummary" =>
        req.result \in UNION {PerformanceSummaryOn(S, req.vehicleId, req.now) :
                                 S \in req.seen}

(* C15: the response of getPerformanceSummary or getFleetStats that raced with one
   ingest transaction is a response computed on the tables before that transaction or
   on the tables after its commit. *)
C15_AnalyticsReadSeesOneSnapshot == FleetReadIsSnapshot /\ SummaryReadIsSnapshot

\* ledger a is the beginning of ledger b
IsPrefix(a, b) == Len(a) <= Len(b) /\ \A j \in DOMAIN a : a[j] = b[j]

(* C16: no step of an ingest, a batch ingest, an association or an analytics request
   removes or changes a committed Reading row: each committed ledger is the beginning
   of the ledger after the step. *)
C16_LedgersAppendOnly ==
    [][/\ IsPrefix(db.meterReading, db'.meterReading)
       /\ IsPrefix(db.vehicleReading, db'.vehicleReading)]_vars

\* two calls have committed readings, and a vehicle that has readings was then
\* associated with a meter
C16_Witness ==
    /\ Len(db.vehicleReading) > 0 /\ Len(db.meterReading) > 0
    /\ req.op = "associateVehicleWithMeter" /\ req.pc = "done"
    /\ req.result = [success |-> TRUE]
    /\ \E j \in DOMAIN db.vehicleReading : db.vehicleReading[j].vehicleId = req.vehicleId

(* C17: concurrent callers.  In every state the committed CurrentState tables, and what
   every open transaction reads of them, hold at most one row per device id, and the
   committed tables hold a row for exactly the devices that have a committed reading. *)
C17_OneCurrentStateRowPerDevice ==
    /\ \A id \in MeterIdSet :
          /\ Cardinality(RowsOf(db.meterCurrentState, "meterId", id)) =
                IF ReadingsOf(db.meterReading, "meterId", id) = {} THEN 0 ELSE 1
          /\ \A p \in Procs :
                Cardinality(RowsOf(TxView(p).meterCurrentState, "meterId", id)) <= 1
    /\ \A id \in VehicleIdSet :
          /\ Cardinality(RowsOf(db.vehicleCurrentState, "vehicleId", id)) =
                IF ReadingsOf(db.vehicleReading, "vehicleId", id) = {} THEN 0 ELSE 1
          /\ \A p \in Procs :
                Cardinality(RowsOf(TxView(p).vehicleCurrentState, "vehicleId", id)) <= 1

\* two concurrent calls brought a meter its first two readings, with different values
C17_Witness ==
    \E p, q \in Procs :
        /\ p # q /\ Done(p) /\ Done(q)
        /\ call[p].op \in MeterOps /\ call[q].op \in MeterOps
        /\ Len(db.meterReading) = 2
        /\ db.meterReading[1] # db.meterReading[2]
        /\ db.meterReading[1].meterId = db.meterReading[2].meterId
        /\ Len(call[p].readings) = 1 /\ Len(call[q].readings) = 1

\* the reading violates a domain bound of its kind
OutOfRange(op, r) ==
    IF op \in MeterOps
    THEN r.kwhConsumedAc < 0 \/ r.voltage < 0 \/ r.voltage > 500
    ELSE \/ r.soc < 0 \/ r.soc > 100
         \/ r.kwhDeliveredDc < 0
         \/ r.batteryTemp < 0 - 50 \/ r.batteryTemp > 100

\* call 1 was refused by validation, before any statement, and nothing changed
RejectedBeforeStorage ==
    /\ pc[1] = "done" /\ call[1].error = "BadRequestException"
    /\ db = hist[1].pre

\* single readings out of range, or whose timestamp has no ISO 8601 format, are refused
OutOfRangeOrNoDateRejected ==
    call[1].op \in SingleOps =>
        LET r == call[1].readings[1] IN
        OutOfRange(call[1].op, r) \/ ~IsDateString(r.timestamp) => RejectedBeforeStorage

(* C18: a single reading that violates a domain bound, or whose timestamp is not a valid
   instant, is refused with a validation error before any storage access, and no device
   record, Reading row or CurrentState row is created or changed. *)
C18_InvalidReadingRejectedBeforeStorage ==
    call[1].op \in SingleOps =>
        LET r == call[1].readings[1] IN
        OutOfRange(call[1].op, r) \/ ~IsValidDate(r.timestamp) => RejectedBeforeStorage

\* some reading of the batch is out of range or has a timestamp that is no valid instant
HasMalformedReading(op, readings) ==
    \E j \in DOMAIN readings :
        OutOfRange(op, readings[j]) \/ ~IsValidDate(readings[j].timestamp)

\* a batch with a timestamp that is no valid instant is rolled back as a whole
InvalidDateBatchFailsWhole ==
    call[1].op \in BatchOps
    /\ (\E j \in DOMAIN call[1].readings : ~IsValidDate(call[1].readings[j].timestamp))
        => ~Done(1) /\ db = hist[1].pre

(* C19: a batch with at least one malformed or out-of-range reading fails as a whole:
   the call does not succeed, and no reading of the batch is appended, no device is
   registered and no CurrentState row is changed. *)
C19_MalformedBatchFailsWhole ==
    call[1].op \in BatchOps /\ HasMalformedReading(call[1].op, call[1].readings) =>
        ~Done(1) /\ db = hist[1].pre

\* the vehicle id of the association request had no vehicle record when it was made
UnknownVehicle ==
    \A tables \in req.seen : \A r \in tables.vehicle : r.vehicleId # req.vehicleId

\* an association request for an unknown vehicle fails and stores nothing
C20_UnknownVehicleChangesNothing ==
    [][req.pc = "idle" /\ req'.op = "associateVehicleWithMeter" /\ req'.pc = "done"
       /\ (\A r \in db.vehicle : r.vehicleId # req'.vehicleId)
          => db' = db /\ "error" \in DOMAIN req'.result]_vars

\* an association request for a known vehicle leaves it with exactly that meter reference
C20_KnownVehicleGetsMeter ==
    req.op = "associateVehicleWithMeter" /\ req.pc = "done" /\ ~UnknownVehicle =>
        /\ req.result = [success |-> TRUE]
        /\ \A r \in db.vehicle : r.vehicleId = req.vehicleId => r.meterId = req.meterId
        /\ Cardinality({r \in db.vehicle : r.vehicleId = req.vehicleId}) = 1

(* C20: associateVehicleWithMeter(vehicleId, meterId) for a vehicle id with no vehicle
   record fails with a NotFoundError and changes nothing; for a known vehicle it sets or
   replaces the vehicle's single meter reference with meterId. *)
C20_AssociateNotFoundOrSets ==
    req.op = "associateVehicleWithMeter" /\ req.pc = "done" =>
        IF UnknownVehicle
        THEN req.result = [error |-> "NotFoundException"]
        ELSE req.result = [success |-> TRUE]

(************************* association and analytics ************************)
\* no snapshot the request read holds a meter record with the request's meter id
NoMeterRecord ==
    \A tables \in req.seen \cup {db} : \A m \in tables.meter : m.meterId # req.meterId

(* C21: associateVehicleWithMeter succeeds for a known vehicle even when no meter
   record with the given meterId exists and stores the dangling reference, and
   getPerformanceSummary for a vehicle whose meter reference has no meter record
   succeeds and reports totalAcConsumed = 0, meterReadingCount = 0 and
   efficiencyRatio = 0. *)
C21_DanglingReferenceReportsNoMeterData ==
    [][/\ (/\ req.pc = "idle" /\ req'.op = "associateVehicleWithMeter"
           /\ (\E r \in db.vehicle : r.vehicleId = req'.vehicleId)
           /\ (\A m \in db.meter : m.meterId # req'.meterId))
            => /\ req'.result = [success |-> TRUE]
               /\ \E r \in db'.vehicle :
                     r.vehicleId = req'.vehicleId /\ r.meterId = req'.meterId
               /\ \A m \in db'.meter : m.meterId # req'.meterId
       /\ (/\ req.op = "getPerformanceSummary" /\ req.pc # "done" /\ req'.pc = "done"
           /\ req'.meterId # NULL
           /\ \A tables \in req'.seen : \A m \in tables.meter : m.meterId # req'.meterId)
            => /\ "error" \notin DOMAIN req'.result
               /\ req'.result.meterId = req'.meterId
               /\ req'.result.totalAcConsumed = 0
               /\ req'.result.meterReadingCount = 0
               /\ req'.result.efficiencyRatio = 0]_vars

\* a summary was given for a vehicle with readings whose meter reference has no meter
\* record, while another meter has readings
C21_Witness ==
    /\ req.op = "getPerformanceSummary" /\ req.pc = "done"
    /\ req.meterId # NULL
    /\ NoMeterRecord
    /\ "error" \notin DOMAIN req.result
    /\ req.result.vehicleReadingCount > 0
    /\ \E j \in DOMAIN db.meterReading :
          db.meterReading[j].timestamp >= req.now - 24 * 60
          /\ db.meterReading[j].timestamp <= req.now

(* A store filled by earlier ingests, one reading an hour for VEH-001 and for
   METER-001, on which one vehicle is associated and summaries are requested. *)
\* the values of a cumulative counter: it climbs, and drops when the device restarts
CounterValues == {5, 6, 100, 101, 102}

CounterSeries == SeqUpTo(CounterValues, MaxSeries)

\* the series of the two devices: one of them long, the other one short, or both short
\* with the energies of a charging session, or of a day whose ratio lies within half
\* a hundredth of a threshold
SeriesPairs ==
    (CounterSeries \X {<<>>, <<1000>>, <<1000, 1005>>, <<900, 1000>>})
    \cup ({<<>>, <<800>>, <<800, 804>>} \X CounterSeries)
    \cup (SeqUpTo({800, 804, 875, 885}, 2) \X SeqUpTo({900, 1000, 1005}, 2))
    \cup ({<<0, 1>>, <<0, 74996>>, <<0, 75004>>, <<0, 84996>>, <<0, 85004>>}
          \X {<<0, 100000>>})

\* the i-th reading of a device is taken at i o'clock
HourString(i) == [form |-> "calendar", wall |-> i, offset |-> 0]

VehicleSeriesDto(values) ==
    [i \in DOMAIN values |->
        [vehicleId |-> "VEH-001", soc |-> 50, kwhDeliveredDc |-> values[i],
         batteryTemp |-> 30 + (i % 2), timestamp |-> HourString(i)]]

MeterSeriesDto(values) ==
    [i \in DOMAIN values |->
        [meterId |-> "METER-001", kwhConsumedAc |-> values[i], voltage |-> 230,
         timestamp |-> HourString(i)]]

\* the tables after the readings were ingested one call after the other on tables pre
RECURSIVE Ingested(_, _, _, _)
Ingested(pre, op, readings, i) ==
    IF i > Len(readings) THEN pre
    ELSE Ingested(EffectOf(pre, op, <<readings[i]>>), op, readings, i + 1)

StoreOf(vehicleValues, meterValues) ==
    Ingested(Ingested(EmptyTables, "ingestVehicleTelemetry",
                      VehicleSeriesDto(vehicleValues), 1),
             "ingestMeterTelemetry", MeterSeriesDto(meterValues), 1)

\* the instant of the requests: the last reading of the longest series is just in
SummaryNow == 60 * MaxSeries

SummaryInit ==
    /\ \E pair \in SeriesPairs : db = StoreOf(pair[1], pair[2])
    /\ pc = [p \in Procs |-> "idle"]
    /\ call = [p \in Procs |-> IdleCall]
    /\ tx = [p \in Procs |-> EmptyTables]
    /\ hist = [p \in Procs |-> [pre |-> EmptyTables, retry |-> FALSE]]
    /\ ordered = TRUE
    /\ req = IdleReq

SummaryNext ==
    \/ associateVehicleWithMeter("VEH-001", "METER-001")
    \/ CallGetPerformanceSummary("VEH-001", SummaryNow)
    \/ getPerformanceSummary
    \/ Respond

SummarySpec == SummaryInit /\ [][SummaryNext]_vars

\* field f of the rows of device id, in ledger order
ValuesOf(ledger, k, id, f) ==
    LET idx == {j \in DOMAIN ledger : ledger[j][k] = id}
        RECURSIVE take(_, _)
        take(acc, j) ==
            IF j > Len(ledger) THEN acc
            ELSE take(IF j \in idx THEN Append(acc, ledger[j][f]) ELSE acc, j + 1)
    IN  take(<<>>, 1)

\* max(0, r[i] - r[i-1]) summed over the consecutive pairs of r
RECURSIVE SumOfRises(_)
SumOfRises(r) ==
    IF Len(r) < 2 THEN 0
    ELSE LET n == Len(r)
             rise == r[n] - r[n - 1]
         IN  SumOfRises(SubSeq(r, 1, n - 1)) + (IF rise > 0 THEN rise ELSE 0)

\* the total the cumulative-delta algorithm is to report for the series r
DeltaTotal(r) ==
    IF Len(r) = 0 THEN 0
    ELSE IF r[Len(r)] - r[1] >= 0 THEN r[Len(r)] - r[1]
    ELSE SumOfRises(r)

\* a summary has been given
SummaryGiven ==
    /\ req.op = "getPerformanceSummary" /\ req.pc = "done"
    /\ "error" \notin DOMAIN req.result

\* the series the summary was computed on: every stored reading of the vehicle and of
\* its meter lies in the window, and the ledgers are in the order of the timestamps
DcSeries == ValuesOf(db.vehicleReading, "vehicleId", req.vehicleId, "kwhDeliveredDc")
AcSeries ==
    IF req.meterId = NULL THEN <<>>
    ELSE ValuesOf(db.meterReading, "meterId", req.meterId, "kwhConsumedAc")

(* C22: for the in-window series r[0..n-1] of the vehicle's DC counter and of the
   meter's AC counter, ordered by timestamp, the reported total is 0 when n = 0, is
   r[n-1] - r[0] when that is >= 0, and else the sum over the consecutive pairs of
   max(0, r[i] - r[i-1]); [100, 101, 102] gives 2 and [100, 101, 5, 6] gives 2
   (reported numbers are in hundredths). *)
C22_CumulativeDelta ==
    SummaryGiven =>
        /\ req.result.totalDcDelivered = 100 * DeltaTotal(DcSeries)
        /\ req.result.totalAcConsumed = 100 * DeltaTotal(AcSeries)
        /\ req.result.vehicleReadingCount = Len(DcSeries)
        /\ req.result.meterReadingCount = Len(AcSeries)
        /\ DcSeries \in {<<100, 101, 102>>, <<100, 101, 5, 6>>}
              => req.result.totalDcDelivered = 200
        /\ AcSeries \in {<<100, 101, 102>>, <<100, 101, 5, 6>>}
              => req.result.totalAcConsumed = 200

\* a summary over a meter series with a reset, for a vehicle with a climbing series
C22_Witness ==
    /\ SummaryGiven
    /\ AcSeries = <<100, 101, 5, 6>>
    /\ DcSeries = <<800, 804>>
    /\ req.result.totalAcConsumed = 200
    /\ req.result.totalDcDelivered = 400

\* the positions of the readings of device id taken from now - 24h to now, both included
InWindow(ledger, k, id, now) ==
    {j \in DOMAIN ledger :
        /\ ledger[j][k] = id
        /\ now - 24 * 60 <= ledger[j].timestamp
        /\ ledger[j].timestamp <= now}

\* field f of the readings at the positions idx, the earliest observation first
RECURSIVE EarliestFirst(_, _, _)
EarliestFirst(ledger, idx, f) ==
    IF idx = {} THEN <<>>
    ELSE LET first == CHOOSE j \in idx :
                         \A i \in idx :
                            \/ ledger[j].timestamp < ledger[i].timestamp
                            \/ ledger[j].timestamp = ledger[i].timestamp /\ j <= i
         IN  <<ledger[first][f]>> \o EarliestFirst(ledger, idx \ {first}, f)

RECURSIVE Total(_)
Total(values) == IF values = <<>> THEN 0 ELSE Head(values) + Total(Tail(values))

\* the mean of the values in hundredths, rounded half up; 0 for no value
MeanOf(values) ==
    IF values = <<>> THEN 0
    ELSE (200 * Total(values) + Len(values)) \div (2 * Len(values))

(* C23: getPerformanceSummary evaluated at instant now uses exactly the readings of
   the vehicle and of its associated meter with now - 24h <= timestamp <= now, both
   bounds included, in ascending order of timestamp whatever the order of ingestion:
   the totals, the average temperature and the counts are those of that series, and
   readings outside the window do not affect them. *)
C23_WindowInclusiveAscending ==
    SummaryGiven /\ Cardinality(req.seen) = 1 =>
        LET S == CHOOSE tables \in req.seen : TRUE
            v == InWindow(S.vehicleReading, "vehicleId", req.vehicleId, req.now)
            m == IF req.meterId = NULL THEN {}
                 ELSE InWindow(S.meterReading, "meterId", req.meterId, req.now)
        IN  /\ req.result.periodEnd = req.now
            /\ req.result.periodStart = req.now - 24 * 60
            /\ req.result.vehicleReadingCount = Cardinality(v)
            /\ req.result.meterReadingCount = Cardinality(m)
            /\ req.result.totalDcDelivered =
                  100 * DeltaTotal(EarliestFirst(S.vehicleReading, v, "kwhDeliveredDc"))
            /\ req.result.totalAcConsumed =
                  100 * DeltaTotal(EarliestFirst(S.meterReading, m, "kwhConsumedAc"))
            /\ req.result.avgBatteryTemp =
                  MeanOf(EarliestFirst(S.vehicleReading, v, "batteryTemp"))

\* the later reading was ingested first, and the summary is requested exactly 24 hours
\* after the earlier one was taken: both count, in the order of their timestamps
C23_Witness ==
    /\ SummaryGiven /\ Cardinality(req.seen) = 1
    /\ req.now = 1500
    /\ Len(db.vehicleReading) = 2
    /\ db.vehicleReading[1].timestamp = 120 /\ db.vehicleReading[2].timestamp = 60
    /\ db.vehicleReading[1].vehicleId = req.vehicleId
    /\ db.vehicleReading[2].vehicleId = req.vehicleId
    /\ req.result.vehicleReadingCount = 2
    /\ req.result.totalDcDelivered = 400

\* a summary requested ten minutes later leaves the earlier reading out
WindowLeavesOldReadingOut ==
    /\ SummaryGiven /\ Cardinality(req.seen) = 1
    /\ req.now = 1510
    /\ Len(db.vehicleReading) = 2
    /\ \A j \in 1..2 : db.vehicleReading[j].vehicleId = req.vehicleId
    /\ {db.vehicleReading[j].timestamp : j \in 1..2} = {60, 120}
    /\ req.result.vehicleReadingCount = 1

\* e, in hundredths, is the quotient n / d rounded to two decimals (a half rounds up)
IsRounded2(e, n, d) ==
    /\ 2 * (e * d - 100 * n) <= d
    /\ 2 * (e * d - 100 * n) > 0 - d

\* the end-to-end scenario: meter 1000 then 1005, vehicle 800 then 804, the vehicle
\* associated with the meter once the readings are stored
EndToEndScenario ==
    /\ SummaryGiven
    /\ DcSeries = <<800, 804>>
    /\ AcSeries = <<1000, 1005>>

(* C24: the reported efficiencyRatio is (totalDcDelivered / totalAcConsumed) x 100
   rounded to two decimals when totalAcConsumed > 0, and 0 otherwise; in the
   end-to-end scenario the summary reports totalAcConsumed = 5, totalDcDelivered = 4,
   efficiencyRatio = 80.0 and status WARNING (reported numbers are in hundredths). *)
C24_EfficiencyRatio ==
    SummaryGiven =>
        LET totalDcDelivered == DeltaTotal(DcSeries)
            totalAcConsumed == DeltaTotal(AcSeries)
        IN  /\ IF totalAcConsumed > 0
               THEN IsRounded2(req.result.efficiencyRatio,
                               100 * totalDcDelivered, totalAcConsumed)
               ELSE req.result.efficiencyRatio = 0
            /\ EndToEndScenario =>
                  /\ req.result.totalAcConsumed = 500
                  /\ req.result.totalDcDelivered = 400
                  /\ req.result.efficiencyRatio = 8000
                  /\ req.result.efficiencyStatus = "WARNING"

\* the summary of the end-to-end scenario
C24_Witness ==
    /\ EndToEndScenario
    /\ req.result.meterId = "METER-001"
    /\ req.result.efficiencyRatio = 8000

\* a summary whose ratio has more than two decimals: 4 / 96 is reported as 4.17
RatioIsRounded ==
    /\ SummaryGiven
    /\ DeltaTotal(DcSeries) = 4 /\ DeltaTotal(AcSeries) = 96
    /\ req.result.efficiencyRatio = 417

\* the computed ratio (dc / ac) * 100 is at least, or below, the percentage t
RatioAtLeast(dc, ac, t) == 100 * dc >= t * ac
RatioBelow(dc, ac, t) == 100 * dc < t * ac

(* C25: the efficiency status is a total function of the computed ratio: ratio >= 85
   gives HEALTHY, 75 <= ratio < 85 gives WARNING, 0 < ratio < 75 gives CRITICAL and
   ratio = 0 gives HEALTHY; 85 itself is HEALTHY, 75 itself is WARNING, and no other
   status is produced. *)
C25_StatusClassification ==
    SummaryGiven =>
        LET dc == DeltaTotal(DcSeries)
            ac == DeltaTotal(AcSeries)
            status == req.result.efficiencyStatus
        IN  /\ status \in {"HEALTHY", "WARNING", "CRITICAL"}
            /\ IF ac = 0 \/ dc = 0 THEN status = "HEALTHY"
               ELSE /\ RatioAtLeast(dc, ac, 85) => status = "HEALTHY"
                    /\ RatioAtLeast(dc, ac, 75) /\ RatioBelow(dc, ac, 85)
                          => status = "WARNING"
                    /\ RatioBelow(dc, ac, 75) => status = "CRITICAL"
            /\ (ac > 0 /\ 100 * dc = 85 * ac) => status = "HEALTHY"
            /\ (ac > 0 /\ 100 * dc = 75 * ac) => status = "WARNING"

\* a summary whose ratio is exactly 85: 85 kWh delivered of 100 kWh consumed
C25_Witness ==
    /\ SummaryGiven
    /\ DeltaTotal(DcSeries) = 85 /\ DeltaTotal(AcSeries) = 100
    /\ req.result.efficiencyRatio = 8500
    /\ req.result.efficiencyStatus = "HEALTHY"

\* summaries with a ratio of exactly 75, with one below 75 and with no AC energy
StatusWarningAt75 ==
    /\ SummaryGiven
    /\ DeltaTotal(DcSeries) = 75 /\ DeltaTotal(AcSeries) = 100
    /\ req.result.efficiencyStatus = "WARNING"
StatusCritical ==
    /\ SummaryGiven
    /\ DeltaTotal(DcSeries) = 71 /\ DeltaTotal(AcSeries) = 100
    /\ req.result.efficiencyStatus = "CRITICAL"
StatusHealthyWithoutAc ==
    /\ SummaryGiven
    /\ DeltaTotal(DcSeries) = 4 /\ DeltaTotal(AcSeries) = 0
    /\ req.result.efficiencyRatio = 0
    /\ req.result.efficiencyStatus = "HEALTHY"

\* the CurrentState rows of the vehicle of the request
CurrentStateRows == {r \in db.vehicleCurrentState : r.vehicleId = req.vehicleId}

(* C26: getCurrentState(vehicleId) fails with a NotFoundError whenever no CurrentState
   row exists for that id, and otherwise returns the row found by the unique-key
   lookup: the response is made of the CurrentState row alone, whatever the Reading
   ledger holds. *)
C26_CurrentStateLookup ==
    [][req.pc = "idle" /\ req'.op = "getCurrentState" =>
         LET rows == {r \in db.vehicleCurrentState : r.vehicleId = req'.vehicleId}
         IN  /\ req'.pc = "done"
             /\ IF rows = {} THEN req'.result = NotFoundException
                ELSE \E r \in rows :
                        req'.result = [vehicleId |-> r.vehicleId,
                                       currentSoc |-> r.soc,
                                       currentBatteryTemp |-> r.batteryTemp,
                                       lastKwhDeliveredDc |-> r.kwhDeliveredDc,
                                       lastUpdated |-> r.lastTimestamp]]_vars

\* the state of a vehicle whose CurrentState row is older than its newest reading
C26_Witness ==
    /\ req.op = "getCurrentState" /\ req.pc = "done"
    /\ "error" \notin DOMAIN req.result
    /\ req.result.lastUpdated = 60
    /\ \E j \in DOMAIN db.vehicleReading :
          /\ db.vehicleReading[j].vehicleId = req.vehicleId
          /\ db.vehicleReading[j].timestamp = 120

\* the request for a vehicle that was never seen
CurrentStateNotFound ==
    /\ req.op = "getCurrentState" /\ req.pc = "done"
    /\ CurrentStateRows = {}
    /\ req.result = NotFoundException

(* C27: getPerformanceSummary(vehicleId) fails with a NotFoundError when no vehicle
   record with that id exists and succeeds for every registered vehicle: with no
   reading in the window totalDcDelivered, the average temperature and the vehicle
   count are 0, and with no associated meter totalAcConsumed, the ratio and the meter
   count are 0. *)
C27_SummaryNotFoundOrDefaults ==
    [][req.op = "getPerformanceSummary" /\ req'.op = "getPerformanceSummary"
       /\ req.pc # req'.pc =>
         /\ req.pc = "vehicle" =>
               IF \A r \in db.vehicle : r.vehicleId # req.vehicleId
               THEN req'.pc = "done" /\ req'.result = NotFoundException
               ELSE req'.pc = "vehicleReadings"
         /\ req.pc # "vehicle" /\ req'.pc = "done" =>
               /\ "error" \notin DOMAIN req'.result
               /\ req'.result.vehicleId = req.vehicleId
               /\ req'.result.vehicleReadingCount = Len(req'.vehicleReadings)
               /\ req'.vehicleReadings = <<>> =>
                     /\ req'.result.totalDcDelivered = 0
                     /\ req'.result.avgBatteryTemp = 0
                     /\ req'.result.efficiencyRatio = 0
               /\ req.meterId = NULL =>
                     /\ req'.result.meterId = NULL
                     /\ req'.result.totalAcConsumed = 0
                     /\ req'.result.meterReadingCount = 0
                     /\ req'.result.efficiencyRatio = 0]_vars

\* the summary of a registered vehicle without a meter whose one reading is older
\* than the window
C27_Witness ==
    /\ SummaryGiven
    /\ req.meterId = NULL
    /\ \E j \in DOMAIN db.vehicleReading : db.vehicleReading[j].vehicleId = req.vehicleId
    /\ req.result.vehicleReadingCount = 0
    /\ req.result.totalDcDelivered = 0 /\ req.result.totalAcConsumed = 0
    /\ req.result.efficiencyRatio = 0 /\ req.result.avgBatteryTemp = 0
    /\ req.result.meterReadingCount = 0

\* the request for a vehicle without a record
SummaryNotFound ==
    /\ req.op = "getPerformanceSummary" /\ req.pc = "done"
    /\ req.result = NotFoundException
    /\ \A tables \in req.seen : \A r \in tables.vehicle : r.vehicleId # req.vehicleId

\* getFleetStats has answered
FleetStatsGiven == req.op = "getFleetStats" /\ req.pc = "done"

\* the CurrentState rows last seen no more than five minutes before the response
ActiveRows(rows) == {r \in rows : r.lastTimestamp >= req.now - 5}

\* field f added up over the rows
RECURSIVE FieldTotal(_, _)
FieldTotal(rows, f) ==
    IF rows = {} THEN 0
    ELSE LET r == CHOOSE x \in rows : TRUE IN FieldTotal(rows \ {r}, f) + r[f]

(* C28: getFleetStats evaluated at instant now counts a device as active if and only
   if its CurrentState.lastTimestamp >= now - 5 minutes (one last seen 10 minutes ago
   is excluded, one seen exactly 5 minutes ago is included), and avgFleetSoc and
   avgFleetBatteryTemp are the means over exactly the active vehicles, 0 when no
   vehicle is active (reported means are in hundredths). *)
C28_FleetActiveWindow ==
    FleetStatsGiven /\ Cardinality(req.seen) = 1 =>
        LET S == CHOOSE tables \in req.seen : TRUE
            vehicles == ActiveRows(S.vehicleCurrentState)
            meters == ActiveRows(S.meterCurrentState)
            n == Cardinality(vehicles)
        IN  /\ req.result.activeVehicles = n
            /\ req.result.activeMeters = Cardinality(meters)
            /\ \A r \in S.vehicleCurrentState :
                  /\ r.lastTimestamp = req.now - 5 => r \in vehicles
                  /\ r.lastTimestamp = req.now - 10 => r \notin vehicles
            /\ IF n = 0
               THEN req.result.avgFleetSoc = 0 /\ req.result.avgFleetBatteryTemp = 0
               ELSE /\ IsRounded2(req.result.avgFleetSoc, FieldTotal(vehicles, "soc"), n)
                    /\ IsRounded2(req.result.avgFleetBatteryTemp,
                                   FieldTotal(vehicles, "batteryTemp"), n)

\* statistics at 01:10 over a vehicle last seen at 01:00 and one last seen at 02:00:
\* only the second is active and the means are its values
C28_Witness ==
    /\ FleetStatsGiven /\ Cardinality(req.seen) = 1
    /\ req.now = 70
    /\ {r.lastTimestamp : r \in db.vehicleCurrentState} = {60, 120}
    /\ req.result.totalVehicles = 2
    /\ req.result.activeVehicles = 1
    /\ req.result.avgFleetSoc = 6000

\* statistics at 01:05 over a vehicle and a meter last seen at 01:00: both are active
ActiveAtExactlyFiveMinutes ==
    /\ FleetStatsGiven /\ Cardinality(req.seen) = 1
    /\ req.now = 65
    /\ {r.lastTimestamp : r \in db.vehicleCurrentState} = {60}
    /\ {r.lastTimestamp : r \in db.meterCurrentState} = {60}
    /\ req.result.activeVehicles = 1 /\ req.result.activeMeters = 1

\* statistics with no active vehicle
NoActiveVehicle ==
    /\ FleetStatsGiven /\ Cardinality(req.seen) = 1
    /\ db.vehicleCurrentState # {}
    /\ req.result.activeVehicles = 0
    /\ req.result.avgFleetSoc = 0 /\ req.result.avgFleetBatteryTemp = 0

AnalyticsOps == {"getPerformanceSummary", "getCurrentState", "getFleetStats"}

(* C29: getPerformanceSummary, getCurrentState and getFleetStats never write: whether
   they succeed or fail, no step of theirs changes the device tables, the
   vehicle-to-meter links, the Reading ledgers or the CurrentState tables, nor the
   writes of an open transaction. *)
C29_AnalyticsNeverWrite ==
    [][req' # req /\ (req.op \in AnalyticsOps \/ req'.op \in AnalyticsOps)
         => db' = db /\ tx' = tx]_vars

\* a request that failed and one that succeeded, answered on tables that hold rows:
\* the tables are those the request read
C29_Witness ==
    /\ req.op = "getCurrentState" /\ req.pc = "done"
    /\ req.result = NotFoundException
    /\ req.seen = {db}
    /\ db.meterReading # <<>> /\ db.vehicle # {}

AnalyticsSucceededOnUnchangedTables ==
    /\ SummaryGiven
    /\ req.seen = {db}
    /\ req.result.vehicleReadingCount > 0

NonDecreasing(r) == \A i \in 2..Len(r) : r[i - 1] <= r[i]

\* the reported total of the series r is within the bounds of the delta step
WithinDeltaBounds(total, r) ==
    /\ total >= 0
    /\ total <= 100 * SumOfRises(r)
    /\ NonDecreasing(r) \/ (r # <<>> /\ r[Len(r)] < r[1]) => total = 100 * SumOfRises(r)

(* C30: for every in-window series the total of the cumulative-delta step is never
   negative and never exceeds the sum of the positive consecutive deltas; it equals
   that sum when the series is non-decreasing or when the last value is below the
   first; totalAcConsumed, totalDcDelivered and efficiencyRatio are always >= 0. *)
C30_DeltaBounds ==
    SummaryGiven =>
        /\ WithinDeltaBounds(req.result.totalDcDelivered, DcSeries)
        /\ WithinDeltaBounds(req.result.totalAcConsumed, AcSeries)
        /\ req.result.efficiencyRatio >= 0

\* a series that drops and ends below its first value: the total is the sum of the rises
C30_Witness ==
    /\ SummaryGiven
    /\ DcSeries = <<101, 5, 100>>
    /\ AcSeries = <<1000, 1005>>
    /\ req.result.totalDcDelivered = 9500
    /\ req.result.efficiencyRatio = 190000

\* a series that drops and ends above its first value: the total, last minus first, is
\* below the sum of the rises
TotalBelowSumOfRises ==
    /\ SummaryGiven
    /\ AcSeries = <<100, 5, 101>>
    /\ req.result.totalAcConsumed = 100
    /\ SumOfRises(AcSeries) = 96

(************************* invariants and frame effects *********************)
\* every Reading row and every CurrentState row of the tables has its device record
Referenced(tables) ==
    /\ \A j \in DOMAIN tables.meterReading :
          \E d \in tables.meter : d.meterId = tables.meterReading[j].meterId
    /\ \A j \in DOMAIN tables.vehicleReading :
          \E d \in tables.vehicle : d.vehicleId = tables.vehicleReading[j].vehicleId
    /\ \A r \in tables.meterCurrentState : \E d \in tables.meter : d.meterId = r.meterId
    /\ \A r \in tables.vehicleCurrentState :
          \E d \in tables.vehicle : d.vehicleId = r.vehicleId

\* the device ids on record
MeterIdsOf(tables) == {d.meterId : d \in tables.meter}
VehicleIdsOf(tables) == {d.vehicleId : d \in tables.vehicle}

(* C31: after any sequence of ingest, batch-ingest and associate calls, successful or
   failed, every Reading row and every CurrentState row refers to a device id that has
   a device record of its kind, and the set of device records never shrinks; so
   getFleetStats on a quiescent state reports activeVehicles <= totalVehicles and
   activeMeters <= totalMeters. *)
C31_ReferentialInvariants ==
    [][/\ Referenced(db')
       /\ MeterIdsOf(db) \subseteq MeterIdsOf(db')
       /\ VehicleIdsOf(db) \subseteq VehicleIdsOf(db')
       /\ Cardinality(db'.meter) = Cardinality(MeterIdsOf(db'))
       /\ Cardinality(db'.vehicle) = Cardinality(VehicleIdsOf(db'))
       /\ (req'.op = "getFleetStats" /\ req'.pc = "done" /\ Cardinality(req'.seen) = 1)
            => /\ req'.result.activeVehicles <= req'.result.totalVehicles
               /\ req'.result.activeMeters <= req'.result.totalMeters]_vars

\* statistics on tables left by a committed ingest, an association and a failed call
C31_Witness ==
    /\ FleetStatsGiven /\ req.seen = {db}
    /\ Failed(1)
    /\ \E v \in db.vehicle : v.meterId # NULL
    /\ db.vehicleReading # <<>>
    /\ req.result.activeVehicles = 1 /\ req.result.totalVehicles = 1

(* C32: a batch ingest compares timestamps only among the readings of the batch: after
   a successful batch ingest the CurrentState of every device of the batch is that of
   a newest reading of the device in the batch, even when the CurrentState stored
   before the call had a later lastTimestamp than every reading of the batch; the
   devices not in the batch keep their CurrentState. *)
C32_BatchIgnoresStoredTimestamp ==
    Done(1) /\ call[1].op \in BatchOps =>
        LET op == call[1].op
            k == DeviceKey(op)
            readings == call[1].readings
            ids == DeviceIds(readings, k)
            before == StateTable(hist[1].pre, op)
            after == StateTable(db, op)
        IN  /\ \A id \in ids :
                  \E r \in OfDevice(readings, k, id) :
                     /\ Date(r.timestamp) = NewestStamp(readings, k, id)
                     /\ RowsOf(after, k, id) = {StateRow(op, r)}
            /\ {row \in after : row[k] \notin ids} = {row \in before : row[k] \notin ids}
            /\ IF op \in MeterOps
               THEN db.vehicleCurrentState = hist[1].pre.vehicleCurrentState
               ELSE db.meterCurrentState = hist[1].pre.meterCurrentState

\* a batch was committed for a device whose stored CurrentState was newer than every
\* reading of the batch, and the stored row now carries the older batch winner
C32_Witness ==
    /\ Done(1) /\ call[1].op \in BatchOps
    /\ LET op == call[1].op
           k == DeviceKey(op)
           readings == call[1].readings
       IN  /\ \E row \in StateTable(hist[1].pre, op) :
                 /\ row[k] \in DeviceIds(readings, k)
                 /\ row.lastTimestamp > NewestStamp(readings, k, row[k])
                 /\ \E now \in StateTable(db, op) :
                       now[k] = row[k] /\ now.lastTimestamp < row.lastTimestamp

(* C33: in every performance summary the reported efficiencyStatus is the
   classification, under the thresholds 85 and 75, of the reported (two-decimal
   rounded) efficiencyRatio: no summary reports efficiencyRatio >= 85 with WARNING,
   efficiencyRatio >= 75 with CRITICAL, or efficiencyRatio = 0 with CRITICAL. *)
C33_StatusOfReportedRatio ==
    SummaryGiven =>
        LET ratio == req.result.efficiencyRatio
            status == req.result.efficiencyStatus
        IN  /\ status =
                  IF ratio > 0
                  THEN IF ratio < 100 * EFFICIENCY_THRESHOLD_CRITICAL THEN "CRITICAL"
                       ELSE IF ratio < 100 * EFFICIENCY_THRESHOLD_WARNING THEN "WARNING"
                       ELSE "HEALTHY"
                  ELSE "HEALTHY"
            /\ ~(ratio >= 100 * EFFICIENCY_THRESHOLD_WARNING /\ status = "WARNING")
            /\ ~(ratio >= 100 * EFFICIENCY_THRESHOLD_CRITICAL /\ status = "CRITICAL")
            /\ ~(ratio = 0 /\ status = "CRITICAL")

\* the three summaries the claim excludes: 84.996 reported as 85.00 with WARNING,
\* 74.996 reported as 75.00 with CRITICAL, 0.001 reported as 0.00 with CRITICAL
ReportedHealthyRatioWithWarning ==
    /\ SummaryGiven
    /\ req.result.efficiencyRatio = 8500 /\ req.result.efficiencyStatus = "WARNING"

ReportedWarningRatioWithCritical ==
    /\ SummaryGiven
    /\ req.result.efficiencyRatio = 7500 /\ req.result.efficiencyStatus = "CRITICAL"

ReportedZeroRatioWithCritical ==
    /\ SummaryGiven
    /\ req.result.efficiencyRatio = 0 /\ req.result.efficiencyStatus = "CRITICAL"

\* the step in which an association request is served
Associates ==
    req.pc = "idle" /\ req'.op = "associateVehicleWithMeter" /\ req'.pc = "done"

\* the tables of one kind of device
MeterTables == {"meter", "meterReading", "meterCurrentState"}
VehicleTables == {"vehicle", "vehicleReading", "vehicleCurrentState"}

(* C34: each write operation changes only what it owns.  A vehicle ingest or batch
   ingest leaves the row (name and meter association) of every vehicle registered
   before and leaves all meter tables unchanged, and symmetrically for the meter
   ingests; associateVehicleWithMeter changes only the meter reference of the named
   vehicle and leaves every Reading row, every CurrentState row and every other
   device record unchanged; nothing else changes the tables. *)
C34_WritesOnlyWhatItOwns ==
    [][/\ (Commits(1) /\ call[1].op \notin MeterOps) =>
             /\ \A t \in MeterTables : db'[t] = db[t]
             /\ db.vehicle \subseteq db'.vehicle
       /\ (Commits(1) /\ call[1].op \in MeterOps) =>
             /\ \A t \in VehicleTables : db'[t] = db[t]
             /\ db.meter \subseteq db'.meter
       /\ Associates =>
             /\ \A t \in (MeterTables \cup VehicleTables) \ {"vehicle"} : db'[t] = db[t]
             /\ \A v \in db.vehicle : v.vehicleId # req'.vehicleId => v \in db'.vehicle
             /\ \A w \in db'.vehicle :
                   \E v \in db.vehicle : w = [v EXCEPT !.meterId = w.meterId]
             /\ Cardinality(db'.vehicle) = Cardinality(db.vehicle)
       /\ (~Commits(1) /\ ~Associates) => db' = db]_vars

\* a vehicle was associated when it had one reading, and an ingest for it has committed
\* since: the vehicle still has its meter and its name, and a second reading
C34_Witness ==
    /\ Done(1) /\ call[1].op \in {"ingestVehicleTelemetry", "batchIngestVehicleTelemetry"}
    /\ req.op = "associateVehicleWithMeter" /\ req.pc = "done"
    /\ req.result = [success |-> TRUE]
    /\ \E s \in req.seen : Len(s.vehicleReading) = 1 /\ s.vehicle # {}
    /\ Len(db.vehicleReading) = 2
    /\ \A j \in DOMAIN db.vehicleReading : db.vehicleReading[j].vehicleId = req.vehicleId
    /\ \E v \in db.vehicle :
          /\ v.vehicleId = req.vehicleId /\ v.meterId = req.meterId
          /\ v.name = "Vehicle " \o req.vehicleId

====
